---- MODULE Spec2Model ----
(***************************************************************************)
(* A model of the launcher's process builder (ProcessBuilder): join-token  *)
(* acquisition, native-library extraction, construction of the argument    *)
(* vector on the 1.13+ and the pre-1.13 path, process spawn and the        *)
(* teardown of the scratch native directory.                               *)
(*                                                                         *)
(* Strings.  A string is a sequence of pieces.  A piece is a literal chunk *)
(* [k |-> "lit", v |-> text] or a placeholder [k |-> "ph", v |-> name]     *)
(* standing for the characters ${name}.  Literal chunks never hold the     *)
(* characters '$', '{' or '}', so every regular expression of the source   *)
(* that looks for a placeholder is decided by the "ph" pieces, and a       *)
(* prefix the source tests for (startsWith) is always a piece of its own.  *)
(*                                                                         *)
(* Argument entries.  An entry of an argument vector is a record with a    *)
(* tag t: "str" (a string), "obj" (a conditional-rule object), "null",     *)
(* "num" (a number) or "bool" (a boolean).                                 *)
(***************************************************************************)
EXTENDS Integers, Sequences, FiniteSets, TLC

\* ------------------------------------------------------------------ bounds
\* Number of distinct join tokens the issue call may return.
NumJoinTokens == 2
\* Longest library list of a native-extraction manifest.
MaxLibs == 2
\* Fuel of the main substitution loop (steps of the for loop).
MaxLoopSteps == 60
\* Longest list of game arguments of a manifest given to the argument construction.
MaxTemplate == 3
\* Longest argument list given to a pass on its own.
MaxArgs == 4

\* --------------------------------------------------------- string helpers
L(text) == [k |-> "lit", v |-> text]
P(name) == [k |-> "ph", v |-> name]
\* A string entry made of pieces, and the other kinds of entry.
S(pieces) == [t |-> "str", s |-> pieces]
Lit(text) == S(<<L(text)>>)
Ph(name) == S(<<P(name)>>)
Null == [t |-> "null"]
Num(n) == [t |-> "num", n |-> n]
Bool(b) == [t |-> "bool", b |-> b]

IsStr(e) == e.t = "str"
HasPlaceholder(pieces) == \E i \in 1..Len(pieces) : pieces[i].k = "ph"
FirstPh(pieces) == CHOOSE i \in 1..Len(pieces) :
                     pieces[i].k = "ph" /\ \A j \in 1..(i-1) : pieces[j].k # "ph"
LastPh(pieces) == CHOOSE i \in 1..Len(pieces) :
                    pieces[i].k = "ph" /\ \A j \in (i+1)..Len(pieces) : pieces[j].k # "ph"

\* Literal chunks of the model that begin with "--" (long flags).
LongFlags ==
  { "--username", "--version", "--gameDir", "--assetsDir", "--assetIndex", "--uuid",
    "--accessToken", "--clientId", "--xuid", "--userType", "--versionType",
    "--width", "--height", "--fullscreen", "--demo", "--quickPlayMultiplayer",
    "--server", "--port", "--modListFile", "--modRepo", "--tweakClass",
    "--launchTarget", "--fml.mavenRoots", "--fml.modLists", "--fabric.addMods",
    "--userProperties", "--quickPlayPath", "--session" }
\* Literal chunks of the model that begin with a single "-" (JVM options).
DashOptions ==
  { "-cp", "-XstartOnFirstThread", "-Xss1M", "-Xdock:name=HeliosLauncher", "-Xdock:icon=",
    "-Xmx", "-Xms", "-XX:+UseG1GC", "-Djava.library.path=", "-Dorg.lwjgl.librarypath=",
    "-Dfyreth.join_token=", "-Dminecraft.launcher.brand=", "-Dminecraft.launcher.version=",
    "-DlibraryDirectory=", "-javaagent:", "-Dos.name=Windows 10", "-Dos.version=10.0",
    "-Djna.tmpdir=" }

\* String.prototype.startsWith(prefix) for a prefix that is a piece of its own.
StartsWith(e, prefix) ==
  IsStr(e) /\ Len(e.s) > 0 /\ e.s[1].k = "lit" /\ e.s[1].v = prefix
\* arg.startsWith('--')
StartsWithDashDash(e) ==
  IsStr(e) /\ Len(e.s) > 0 /\ e.s[1].k = "lit" /\ e.s[1].v \in LongFlags
\* arg.startsWith('-')
StartsWithDash(e) ==
  IsStr(e) /\ Len(e.s) > 0 /\ e.s[1].k = "lit" /\ e.s[1].v \in (LongFlags \cup DashOptions)
\* arg.startsWith('${') && arg.endsWith('}')
IsWrappedPlaceholder(e) ==
  IsStr(e) /\ Len(e.s) > 0 /\ e.s[1].k = "ph" /\ e.s[Len(e.s)].k = "ph"
\* arg.trim() === ''
IsBlank(e) == IsStr(e) /\ e.s = <<>>

\* -------------------------------------------------------------- the host
Platforms == {"darwin", "linux", "win32"}
Archs == {"arm64", "x64"}

\* helios-core getMojangOS(): the manifest's name of the operating system.
getMojangOS(platform) ==
  CASE platform = "darwin" -> "osx"
    [] platform = "win32" -> "windows"
    [] OTHER -> "linux"

\* child_process.execSync throwing (exit status, timeout, no such command).
ExecFails == "<exec fails>"

\* getSystemArchitecture on the answers of `sysctl -n sysctl.proc_translated`,
\* `arch`, `uname -m` and os.arch().  A failing sysctl leaves the outer try at
\* once.  The debug line of the arch branch runs `uname -m` inside the inner
\* try: a failure there is caught with the answer of arch already taken.
getSystemArchitecture(platform, procTranslated, archResult, unameResult, osArch) ==
  IF platform # "darwin" THEN osArch
  ELSE IF procTranslated = ExecFails THEN osArch
  ELSE IF procTranslated = "1" THEN "arm64"
  ELSE IF archResult # ExecFails /\ unameResult # ExecFails /\ archResult = "arm64" THEN "arm64"
  ELSE IF archResult # ExecFails /\ unameResult # ExecFails /\ archResult \in { "i386", "x86_64" }
       THEN "x64"
  ELSE IF unameResult = ExecFails THEN osArch
  ELSE IF unameResult = "arm64" THEN "arm64"
  ELSE IF unameResult = "x86_64" THEN "x64"
  ELSE osArch

\* A normalization that only knows the direction towards the manifest.
normalizeArchitectureOneWay(arch, platform, forMojangManifest) ==
  IF forMojangManifest /\ platform \in { "darwin", "linux" }
  THEN CASE arch = "arm64" -> "aarch64"
         [] arch = "x64" -> "x86_64"
         [] OTHER -> arch
  ELSE arch
normalizeArchitecture(arch, platform, forMojangManifest) ==
  IF forMojangManifest
  THEN IF platform = "darwin" \/ platform = "linux"
       THEN CASE arch = "arm64" -> "aarch64"
              [] arch = "x64" -> "x86_64"
              [] OTHER -> arch
       ELSE arch
  ELSE CASE arch = "aarch64" -> "arm64"
         [] arch = "arm64" -> "arm64"
         [] arch = "x86_64" -> "x64"
         [] arch = "x64" -> "x64"
         [] OTHER -> arch

\* A comparison of the two strings as they are.
compareArchitectureExact(arch1, arch2, platform) == arch1 = arch2

compareArchitecture(arch1, arch2, platform) ==
  normalizeArchitecture(arch1, platform, FALSE) = normalizeArchitecture(arch2, platform, FALSE)

\* helios-core mcVersionAtLeast(desired, actual) on the minor number of 1.<minor>.
mcVersionAtLeast(desiredMinor, actualMinor) == actualMinor >= desiredMinor

\* String.prototype.trim() on the names and ids of the accounts: the padded
\* name loses its blanks, the others have none.
Trim(text) == IF text = " Steve " THEN "Steve" ELSE text

\* formatUUID: a 32-digit id gets its dashes, a dashed one keeps them, anything
\* else is returned as it is.
formatUUID(uuid) ==
  CASE uuid = "069a79f444e94726a5befca90e38aaf5" -> "069a79f4-44e9-4726-a5be-fca90e38aaf5"
    [] uuid = "069a79f4-44e9-4726-a5be-fca90e38aaf5" -> "069a79f4-44e9-4726-a5be-fca90e38aaf5"
    [] OTHER -> uuid

\* ------------------------------------------------- archives and libraries
\* An archive entry: its name as path segments, and whether it is a directory
\* entry (the entry name of a directory ends with '/').
Entry(segs, dir) == [name |-> segs, dir |-> dir]

\* The archives of the library store.  An archive that is unreadable makes
\* new AdmZip(to) / getEntries() throw.
Archives ==
  [ flat    |-> [readable |-> TRUE, exists |-> TRUE,
                 entries |-> << Entry(<<"META-INF">>, TRUE),
                                Entry(<<"META-INF", "MANIFEST.MF">>, FALSE),
                                Entry(<<"liblwjgl.dylib">>, FALSE) >>],
    nested  |-> [readable |-> TRUE, exists |-> TRUE,
                 entries |-> << Entry(<<"META-INF", "MANIFEST.MF">>, FALSE),
                                Entry(<<"a">>, TRUE),
                                Entry(<<"a", "b.so">>, FALSE) >>],
    modern  |-> [readable |-> TRUE, exists |-> TRUE,
                 entries |-> << Entry(<<"macos">>, TRUE),
                                Entry(<<"macos", "arm64", "liblwjgl.dylib">>, FALSE),
                                Entry(<<"liblwjgl.dylib.sha1">>, FALSE),
                                Entry(<<"libglfw.dylib">>, FALSE) >>],
    corrupt |-> [readable |-> FALSE, exists |-> TRUE, entries |-> << >>] ]

\* An exclusion: the text looked for, as a stem and whether a '/' follows it.
Excl(stem, slash) == [stem |-> stem, slash |-> slash]
\* The pairs <<segment, stem>> of the model where the stem occurs in the segment.
SegmentIncludes ==
  { <<"META-INF", "META-INF">>, <<"liblwjgl.dylib.sha1", ".sha1">>, <<".gitkeep", ".git">> }

\* fileName.indexOf(exclusion) > -1
NameIncludes(entry, excl) ==
  \E i \in 1..Len(entry.name) :
     /\ <<entry.name[i], excl.stem>> \in SegmentIncludes
     /\ excl.slash => (i < Len(entry.name) \/ entry.dir)

\* exclusionArr.forEach(...): shouldExclude
shouldExclude(entry, exclusionArr) ==
  \E k \in 1..Len(exclusionArr) : NameIncludes(entry, exclusionArr[k])

\* A classifier key: its text before the architecture, and the architecture
\* text ("" when the key names none).
Key(base, arch) == [base |-> base, arch |-> arch]
NoKey == [base |-> "", arch |-> ""]
ArchPlaceholder == "${arch}"

\* nativeKey.replace('${arch}', archStr)
ReplaceArch(nativeKey, archStr) ==
  IF nativeKey.arch = ArchPlaceholder THEN Key(nativeKey.base, archStr) ELSE nativeKey

\* A guard that only knows the spelling x64.
KeyNamesX64Only(key) == key.arch = "x64"
\* classifierKey.includes('x86_64') || classifierKey.includes('x64')
KeyNamesX86(key) == key.arch \in {"x86_64", "x64"}

\* lib.downloads.classifiers[key]: the archive of the artifact, "" when absent.
ClassifierArtifact(lib, key) ==
  IF \E c \in lib.classifiers : c.key = key
  THEN (CHOOSE c \in lib.classifiers : c.key = key).archive
  ELSE ""

DefaultLegacyExclude == << Excl("META-INF", TRUE) >>
DefaultModernExclude == << Excl("META-INF", TRUE), Excl(".git", FALSE), Excl(".sha1", FALSE) >>

\* Library descriptors.  fmt "legacy": lib.natives != null; "modern": the name
\* holds 'natives-' (os and arch as the regular expression captures them, arch ""
\* when the second group is absent, os "" when the expression does not match);
\* "plain": no natives.  compatible is the answer of isLibraryCompatible.
\* exclude << >> stands for lib.extract == null.
LegacyLib(name, natives, classifiers, exclude, compatible) ==
  [fmt |-> "legacy", name |-> name, ga |-> name, natives |-> natives,
   classifiers |-> classifiers, os |-> "", arch |-> "", artifact |-> "",
   path |-> "", exclude |-> exclude, compatible |-> compatible]
ModernLib(name, os, arch, archive, exclude) ==
  [fmt |-> "modern", name |-> name, ga |-> name, natives |-> [osx |-> NoKey, linux |-> NoKey, windows |-> NoKey],
   classifiers |-> {}, os |-> os, arch |-> arch, artifact |-> archive,
   path |-> "", exclude |-> exclude, compatible |-> TRUE]
PlainLib(ga, version, path) ==
  [fmt |-> "plain", name |-> ga \o ":" \o version, ga |-> ga,
   natives |-> [osx |-> NoKey, linux |-> NoKey, windows |-> NoKey],
   classifiers |-> {}, os |-> "", arch |-> "", artifact |-> "",
   path |-> path, exclude |-> << >>, compatible |-> TRUE]

AllOs(base) == [osx |-> Key(base \o "osx", ""), linux |-> Key(base \o "linux", ""),
                windows |-> Key(base \o "windows", "")]
Art(key, archive) == [key |-> key, archive |-> archive]

LibCatalog ==
  { PlainLib("com.google.guava:guava", "21.0", "com/google/guava/guava/21.0/guava-21.0.jar"),
    LegacyLib("org.lwjgl.lwjgl:lwjgl-platform:2.9.4", AllOs("natives-"),
              { Art(Key("natives-osx", ""), "flat"), Art(Key("natives-linux", ""), "flat"),
                Art(Key("natives-windows", ""), "flat") }, << >>, TRUE),
    LegacyLib("net.java.jinput:jinput-platform:2.0.5", AllOs("natives-"),
              { Art(Key("natives-osx", ""), "nested"), Art(Key("natives-linux", ""), "nested"),
                Art(Key("natives-windows", ""), "nested") }, << Excl("META-INF", TRUE) >>, TRUE),
    LegacyLib("org.lwjgl:lwjgl-glfw:3.2.1",
              [osx |-> Key("natives-osx-", ArchPlaceholder),
               linux |-> Key("natives-linux-", ArchPlaceholder),
               windows |-> Key("natives-windows-", ArchPlaceholder)],
              { Art(Key("natives-osx-", "arm64"), "flat"), Art(Key("natives-osx-", "x86_64"), "flat"),
                Art(Key("natives-linux-", "aarch64"), "flat"),
                Art(Key("natives-linux-", "x86_64"), "flat") }, << >>, TRUE),
    LegacyLib("ca.weblite:java-objc-bridge:1.0.0",
              [osx |-> Key("natives-osx-", "x86_64"), linux |-> Key("natives-linux-", "x86_64"),
               windows |-> NoKey],
              { Art(Key("natives-osx-", "x86_64"), "flat"),
                Art(Key("natives-linux-", "x86_64"), "flat") }, << >>, TRUE),
    LegacyLib("com.mojang:text2speech:1.10.3", AllOs("natives-"),
              { Art(Key("natives-osx", ""), "corrupt"), Art(Key("natives-linux", ""), "corrupt"),
                Art(Key("natives-windows", ""), "corrupt") }, << >>, TRUE),
    LegacyLib("tv.twitch:twitch-platform:5.16", AllOs("natives-"),
              { Art(Key("natives-windows", ""), "flat") }, << >>, FALSE),
    ModernLib("org.lwjgl:lwjgl:3.3.1:natives-macos-arm64", "macos", "arm64", "modern", << >>),
    ModernLib("org.lwjgl:lwjgl:3.3.1:natives-macos", "macos", "", "nested",
              << Excl("META-INF", TRUE) >>),
    ModernLib("org.lwjgl:lwjgl:3.3.1:natives-linux-x86_64", "linux", "x86_64", "nested",
              << Excl("META-INF", TRUE) >>),
    ModernLib("org.lwjgl:lwjgl:3.3.1:natives-linux-aarch64", "linux", "aarch64", "modern", << >>) }


\* --------------------------------------------------------- the extraction
\* A write of one archive entry into the scratch directory: the library (its
\* index in the manifest), the entry, and the path below the scratch directory
\* that path.join(tempNativePath, ...) names.
Write(libIdx, entry, target) ==
  [lib |-> libIdx, name |-> entry.name, dir |-> entry.dir, target |-> target, st |-> "pending"]

\* Pre-1.19 unzip loop: every entry that is not excluded is written to
\* path.join(tempNativePath, fileName).
LegacyWrites(libIdx, archive, exclusionArr) ==
  LET entries == SelectSeq(Archives[archive].entries,
                           LAMBDA e : ~shouldExclude(e, exclusionArr))
  IN  [i \in 1..Len(entries) |-> Write(libIdx, entries[i], entries[i].name)]

\* A 1.19+ loop that keeps the directory prefix.
extractFullName(entry) == entry.name
\* 1.19+ unzip loop: directory entries are passed over, and an entry is written
\* under the text after its last '/'.
extractName(entry) == << entry.name[Len(entry.name)] >>
ModernWrites(libIdx, archive, exclusionArr) ==
  LET entries == SelectSeq(Archives[archive].entries,
                           LAMBDA e : ~e.dir /\ ~shouldExclude(e, exclusionArr))
  IN  [i \in 1..Len(entries) |-> Write(libIdx, entries[i], extractName(entries[i]))]

\* What the loop body does with one library.
Outcome(disp, opened, writes, cp, lookups, threw) ==
  [disp |-> disp, opened |-> opened, writes |-> writes, cp |-> cp,
   lookups |-> lookups, threw |-> threw]
Skip(disp, lookups) == Outcome(disp, "", << >>, << >>, lookups, FALSE)

\* nativeKey.replace('${arch}', 'aarch64')
altClassifierKey(nativeKey) == ReplaceArch(nativeKey, "aarch64")

\* The retry of the pre-1.19 branch when the classifier key has no artifact.
AltLookup(lib, libIdx, nativeKey, classifierKey, platform, systemArch, exclusionArr) ==
  IF platform = "darwin" /\ systemArch = "arm64"
  THEN LET altKey == altClassifierKey(nativeKey)
           altArtifact == ClassifierArtifact(lib, altKey)
           looked == << classifierKey, altKey >>
       IN  IF altArtifact # ""
           THEN IF ~Archives[altArtifact].exists
                THEN Skip("alt_file_missing", looked)
                ELSE IF ~Archives[altArtifact].readable
                     THEN Outcome("archive_error", altArtifact, << >>, << >>, looked, TRUE)
                     ELSE Outcome("extracted_alt", altArtifact,
                                  LegacyWrites(libIdx, altArtifact, exclusionArr),
                                  << >>, looked, FALSE)
           ELSE Skip("no_artifact", looked)
  ELSE Skip("no_artifact", << classifierKey >>)

\* lib.natives != null
LegacyNatives(lib, libIdx, platform, systemArch) ==
  LET exclusionArr == IF lib.exclude # << >> THEN lib.exclude ELSE DefaultLegacyExclude
      archStr == normalizeArchitecture(systemArch, platform, TRUE)
      nativeKey == lib.natives[getMojangOS(platform)]
      classifierKey == ReplaceArch(nativeKey, archStr)
      artifact == ClassifierArtifact(lib, classifierKey)
  IN  IF nativeKey = NoKey
      THEN Skip("no_native_for_os", << >>)
      ELSE IF platform = "darwin" /\ systemArch = "arm64" /\ KeyNamesX86(classifierKey)
      THEN Skip("x86_guard", << >>)
      ELSE IF artifact = ""
      THEN AltLookup(lib, libIdx, nativeKey, classifierKey, platform, systemArch, exclusionArr)
      ELSE IF ~(Archives[artifact].exists /\ Archives[artifact].readable)
      THEN Outcome("archive_error", artifact, << >>, << >>, << classifierKey >>, TRUE)
      ELSE Outcome("extracted", artifact, LegacyWrites(libIdx, artifact, exclusionArr),
                   << >>, << classifierKey >>, FALSE)

\* lib.name.includes('natives-')
ModernNatives(lib, libIdx, platform, systemArch) ==
  LET osFromName == lib.os
      arch == IF lib.arch = "" THEN "x64" ELSE lib.arch
      mojangOS == getMojangOS(platform)
      osMatches == \/ osFromName = mojangOS
                   \/ (osFromName = "macos" /\ mojangOS = "osx")
                   \/ (osFromName = "osx" /\ mojangOS = "macos")
      archMatch == compareArchitecture(arch, systemArch, platform)
      exclusionArr == IF lib.exclude # << >> THEN lib.exclude ELSE DefaultModernExclude
      artifact == lib.artifact
  IN  IF osFromName = ""
      THEN Skip("regex_no_match", << >>)
      ELSE IF ~osMatches
      THEN Skip("os_mismatch", << >>)
      ELSE IF platform = "darwin" /\ systemArch = "arm64" /\ arch \in {"x86_64", "x64"}
      THEN Skip("x86_guard", << >>)
      ELSE IF ~archMatch
      THEN Skip("arch_mismatch", << >>)
      ELSE IF ~(Archives[artifact].exists /\ Archives[artifact].readable)
      THEN Outcome("archive_error", artifact, << >>, << >>, << >>, TRUE)
      ELSE Outcome("extracted", artifact, ModernWrites(libIdx, artifact, exclusionArr),
                   << >>, << >>, FALSE)

\* No natives: the library goes to the classpath map under its id without version.
NoNatives(lib) ==
  Outcome("classpath", "", << >>, << << lib.ga, lib.path >> >>, << >>, FALSE)

\* The body of the loop over vanillaManifest.libraries.
ProcessLibrary(lib, libIdx, platform, systemArch) ==
  IF ~lib.compatible
  THEN Skip("incompatible", << >>)
  ELSE CASE lib.fmt = "legacy" -> LegacyNatives(lib, libIdx, platform, systemArch)
         [] lib.fmt = "modern" -> ModernNatives(lib, libIdx, platform, systemArch)
         [] OTHER -> NoNatives(lib)

\* The loop: the outcomes of the libraries in order, up to and including the
\* first one that throws.
RECURSIVE LibraryLoop(_, _, _, _)
LibraryLoop(libArr, i, platform, systemArch) ==
  IF i > Len(libArr)
  THEN << >>
  ELSE LET o == ProcessLibrary(libArr[i], i, platform, systemArch)
       IN  IF o.threw THEN << o >>
           ELSE << o >> \o LibraryLoop(libArr, i + 1, platform, systemArch)

RECURSIVE Flatten(_)
Flatten(seqs) == IF seqs = << >> THEN << >> ELSE Head(seqs) \o Flatten(Tail(seqs))


\* ------------------------------------------------- the argument templates
\* The value no account field holds: the JavaScript undefined of a missing field.
Undefined == "<undefined>"
\* A JavaScript string as an entry ('' is the string without pieces).
StrOf(text) == IF text = "" THEN S(<< >>) ELSE Lit(text)
\* An account field that is put in whether it is there or not.
FieldKept(text) == StrOf(text)
\* val != null for the value of an account field
FieldOrNull(text) == IF text = Undefined THEN Null ELSE StrOf(text)

\* A conditional-rule object.  value is a string (vt "string", one item), a list
\* (vt "list") or missing (vt "undef").
Obj(rules, vt, items) == [t |-> "obj", rules |-> rules, vt |-> vt, items |-> items]
\* Rules: {action, os: {name, version}} with version "none" when absent and else
\* "match" or "nomatch", the answer of new RegExp(rule.os.version).test(...);
\* {action, features: {has_custom_resolution}} (hcr) or another feature.
OsRule(action, name, version) ==
  [kind |-> "os", action |-> action, name |-> name, version |-> version, hcr |-> FALSE]
FeatureRule(hcr) ==
  [kind |-> "features", action |-> "allow", name |-> "", version |-> "none", hcr |-> hcr]

\* A rule evaluation that looks at the name of the OS only.
RuleChecksumByNameOnly(rule, platform) ==
  IF rule.kind = "os"
  THEN IF rule.name = getMojangOS(platform)
       THEN (IF rule.action = "allow" THEN 1 ELSE 0)
       ELSE (IF rule.action = "disallow" THEN 1 ELSE 0)
  ELSE IF rule.kind = "features" /\ rule.hcr THEN 1 ELSE 0
\* The contribution of one rule to checksum.
RuleChecksum(rule, platform) ==
  IF rule.kind = "os"
  THEN IF rule.name = getMojangOS(platform) /\ (rule.version = "none" \/ rule.version = "match")
       THEN (IF rule.action = "allow" THEN 1 ELSE 0)
       ELSE (IF rule.action = "disallow" THEN 1 ELSE 0)
  ELSE IF rule.kind = "features" /\ rule.hcr THEN 1 ELSE 0

RECURSIVE SumChecksum(_, _)
SumChecksum(rules, platform) ==
  IF rules = << >> THEN 0
  ELSE RuleChecksum(Head(rules), platform) + SumChecksum(Tail(rules), platform)

\* The rule object after the loop over its rules: a has_custom_resolution rule
\* overwrites the value with ['--fullscreen', 'true'] when fullscreen is configured.
AfterRules(obj, fullscreen) ==
  IF fullscreen /\ \E k \in 1..Len(obj.rules) : obj.rules[k].kind = "features" /\ obj.rules[k].hcr
  THEN Obj(obj.rules, "list", << Lit("--fullscreen"), Lit("true") >>)
  ELSE obj

\* args.splice(i, 1, ...items)
Splice(args, i, items) == SubSeq(args, 1, i - 1) \o items \o SubSeq(args, i + 1, Len(args))
\* args.splice(i, 0, item)
InsertAt(args, i, item) == SubSeq(args, 1, i - 1) \o << item >> \o SubSeq(args, i, Len(args))

\* The identifier argDiscovery = /\${*(.*)}/ captures: the name of the only
\* placeholder, or, with several, text from the first to the last that is the
\* name of none ("").
Identifier(e) ==
  IF FirstPh(e.s) = LastPh(e.s) THEN e.s[FirstPh(e.s)].v ELSE ""
\* args[i].replace(argDiscovery, text): from the first '$' to the last '}'.
ReplaceDiscovery(e, text) ==
  S(SubSeq(e.s, 1, FirstPh(e.s) - 1) \o << L(text) >> \o SubSeq(e.s, LastPh(e.s) + 1, Len(e.s)))

UserType(authUser) ==
  IF authUser.type = "microsoft" THEN "msa" ELSE IF authUser.type = "ely" THEN "ely" ELSE "mojang"
ClientId == "00000000402b5328"
\* this.authUser.uuid.trim().replace(/-/g, '')
StripDashes(uuid) ==
  IF uuid = "069a79f4-44e9-4726-a5be-fca90e38aaf5" THEN "069a79f444e94726a5befca90e38aaf5" ELSE uuid
\* auth_xuid: the XUID, else the undashed uuid, for Microsoft accounts only.
XuidValue(authUser) ==
  IF authUser.type = "microsoft"
  THEN IF authUser.xuid # Undefined /\ authUser.xuid # ""
       THEN Lit(authUser.xuid) ELSE Lit(StripDashes(authUser.uuid))
  ELSE Null

\* The switch of the main pass: the value of an identifier (Null: val stays null).
\* c holds what the getters read: authUser, server, vanillaManifest, config,
\* tempNativePath, classpathStr, launcherVersion.
MainPassValue(identifier, e, c) ==
  CASE identifier = "auth_player_name" -> StrOf(Trim(c.authUser.displayName))
    [] identifier = "version_name" -> Lit(c.server.id)
    [] identifier = "game_directory" -> Lit("<gameDir>")
    [] identifier = "assets_root" -> Lit("<commonDir>/assets")
    [] identifier = "assets_index_name" -> Lit(c.vanillaManifest.assets)
    [] identifier = "auth_uuid" -> StrOf(formatUUID(Trim(c.authUser.uuid)))
    [] identifier = "auth_access_token" -> FieldOrNull(c.authUser.accessToken)
    [] identifier = "user_type" -> Lit(UserType(c.authUser))
    [] identifier = "clientid" ->
         IF c.authUser.type = "microsoft" THEN Lit(ClientId) ELSE Null
    [] identifier = "auth_xuid" -> XuidValue(c.authUser)
    [] identifier = "version_type" -> Lit(c.vanillaManifest.type)
    [] identifier = "resolution_width" -> Num(c.config.gameWidth)
    [] identifier = "resolution_height" -> Num(c.config.gameHeight)
    [] identifier = "natives_directory" -> ReplaceDiscovery(e, c.tempNativePath)
    [] identifier = "launcher_name" -> ReplaceDiscovery(e, "Helios-Launcher")
    [] identifier = "launcher_version" -> ReplaceDiscovery(e, c.launcherVersion)
    [] identifier = "classpath" -> c.classpathStr
    [] OTHER -> Null

\* One pass of the body of the main loop at index i: the new vector and the new
\* index (before the loop's i++).
MainLoopBody(args, i, c) ==
  LET e == args[i] IN
  IF e.t = "obj"
  THEN LET o == AfterRules(e, c.config.fullscreen) IN
       IF SumChecksum(o.rules, c.platform) = Len(o.rules)
       THEN CASE o.vt = "string" -> [args |-> Splice(args, i, o.items), i |-> i - 1]
              [] o.vt = "list" -> [args |-> Splice(args, i, o.items), i |-> i - 1]
              [] OTHER -> [args |-> Splice(args, i, << o >>), i |-> i - 1]
       ELSE [args |-> Splice(args, i, << Null >>), i |-> i]
  ELSE IF IsStr(e) /\ HasPlaceholder(e.s)
       THEN LET val == MainPassValue(Identifier(e), e, c) IN
            [args |-> IF val # Null THEN Splice(args, i, << val >>) ELSE args, i |-> i]
       ELSE [args |-> args, i |-> i]

\* for(let i=0; i<args.length; i++){...}, cut off after MaxLoopSteps steps
\* (done FALSE: the loop was still running).
RECURSIVE MainLoop(_, _, _, _)
MainLoop(args, i, c, fuel) ==
  IF i > Len(args) THEN [args |-> args, done |-> TRUE]
  ELSE IF fuel = 0 THEN [args |-> args, done |-> FALSE]
  ELSE LET r == MainLoopBody(args, i, c) IN MainLoop(r.args, r.i + 1, c, fuel - 1)


\* An auto-connect that does not ask the configuration.
processAutoConnectArgUnconfigured(c) ==
  IF c.server.autoconnect
  THEN << Lit("--server"), Lit(c.server.hostname), Lit("--port"), Num(c.server.port) >>
  ELSE << >>
\* _processAutoConnectArg: what is pushed.
processAutoConnectArg(c) ==
  IF c.config.autoConnect /\ c.server.autoconnect
  THEN IF mcVersionAtLeast(20, c.server.minecraftVersion)
       THEN << Lit("--quickPlayMultiplayer"),
               S(<< L(c.server.hostname), L(":"), L(ToString(c.server.port)) >>) >>
       ELSE << Lit("--server"), Lit(c.server.hostname), Lit("--port"), Num(c.server.port) >>
  ELSE << >>

\* resolvePlaceholder(key) of the post-pass (Null: null or undefined).
resolvePlaceholder(key, c) ==
  CASE key = "auth_uuid" -> StrOf(formatUUID(Trim(c.authUser.uuid)))
    [] key = "auth_access_token" -> FieldOrNull(c.authUser.accessToken)
    [] key = "auth_player_name" ->
         IF c.authUser.username # Undefined /\ c.authUser.username # ""
         THEN Lit(c.authUser.username) ELSE StrOf(c.authUser.displayName)
    [] key = "user_type" -> Lit(UserType(c.authUser))
    [] key = "clientid" -> IF c.authUser.type = "microsoft" THEN Lit(ClientId) ELSE Null
    [] key = "auth_xuid" -> XuidValue(c.authUser)
    [] OTHER -> Null

\* The in-string replacement of the post-pass: every ${key} gives way to its
\* replacement, or to nothing.
RECURSIVE ReplaceInString(_, _)
ReplaceInString(pieces, c) ==
  IF pieces = << >> THEN << >>
  ELSE LET h == Head(pieces)
           r == IF h.k = "ph" THEN resolvePlaceholder(h.v, c) ELSE Null
       IN  (IF h.k # "ph" THEN << h >> ELSE IF r # Null THEN r.s ELSE << >>)
           \o ReplaceInString(Tail(pieces), c)

\* The post-pass over one entry.
PostPassEntry(e, c) ==
  IF ~IsStr(e) THEN e
  ELSE IF IsWrappedPlaceholder(e)
  THEN LET key == IF Len(e.s) = 1 THEN e.s[1].v ELSE ""
           replacement == resolvePlaceholder(key, c)
       IN  IF replacement # Null THEN replacement ELSE Null
  ELSE IF HasPlaceholder(e.s) THEN S(ReplaceInString(e.s, c))
  ELSE e

PostPass(args, c) == [i \in 1..Len(args) |-> PostPassEntry(args[i], c)]

\* The filter pass.  threw: filteredArgs[...].startsWith is called on an entry
\* that is no string (a TypeError).
RECURSIVE FilterPass(_, _, _)
FilterPass(args, i, filteredArgs) ==
  IF i > Len(args) THEN [args |-> filteredArgs, threw |-> FALSE]
  ELSE LET arg == args[i]
           n == Len(filteredArgs)
           popped == SubSeq(filteredArgs, 1, n - 1)
       IN  IF arg = Null
           THEN IF n > 0 /\ StartsWithDashDash(filteredArgs[n])
                THEN FilterPass(args, i + 1, popped)
                ELSE FilterPass(args, i + 1, filteredArgs)
           ELSE IF IsStr(arg) /\ (IsBlank(arg) \/ IsWrappedPlaceholder(arg))
           THEN IF n > 0 /\ ~IsStr(filteredArgs[n])
                THEN [args |-> filteredArgs, threw |-> TRUE]
                ELSE IF n > 0 /\ StartsWithDashDash(filteredArgs[n])
                     THEN FilterPass(args, i + 1, popped)
                     ELSE FilterPass(args, i + 1, filteredArgs)
           ELSE FilterPass(args, i + 1, Append(filteredArgs, arg))

\* args.findIndex(pred) as a 1-based index, 0 when there is none; hits are the
\* positions whose entry passes pred.
FindIndex(hits) ==
  IF hits = {} THEN 0 ELSE CHOOSE i \in hits : \A j \in hits : i <= j

\* findJVMArgInsertIndex(): the 1-based position an inserted entry takes.
findJVMArgInsertIndex(args) ==
  LET cpIndex == FindIndex({ i \in 1..Len(args) : args[i] = Lit("-cp") })
      mainClassIndex == FindIndex({ i \in 1..Len(args) : IsStr(args[i]) /\ ~StartsWithDash(args[i]) })
  IN  IF cpIndex > 1 THEN cpIndex
      ELSE IF mainClassIndex > 1 THEN mainClassIndex
      ELSE Len(args) + 1

LibraryPathArg(c) == S(<< L("-Djava.library.path="), L(c.tempNativePath) >>)
LwjglPathArg(c) == S(<< L("-Dorg.lwjgl.librarypath="), L(c.tempNativePath) >>)

\* Ensure java.library.path is set.
EnsureLibraryPath(args, c) ==
  LET hasLibraryPath == \E i \in 1..Len(args) : StartsWith(args[i], "-Djava.library.path=")
      insertIndex == findJVMArgInsertIndex(args)
      xstartIndex == FindIndex({ i \in 1..Len(args) : args[i] = Lit("-XstartOnFirstThread") })
  IN  IF hasLibraryPath THEN args
      ELSE IF c.platform = "darwin" /\ xstartIndex > 0
           THEN InsertAt(args, xstartIndex + 1, LibraryPathArg(c))
           ELSE InsertAt(args, insertIndex, LibraryPathArg(c))

\* An LWJGL path that goes after -XstartOnFirstThread first.
EnsureLwjglPathAfterXstart(args, c) ==
  LET hasLWJGLPath == \E i \in 1..Len(args) : StartsWith(args[i], "-Dorg.lwjgl.librarypath=")
      xstartIndex == FindIndex({ i \in 1..Len(args) : args[i] = Lit("-XstartOnFirstThread") })
      libraryPathIndex == FindIndex({ i \in 1..Len(args) : StartsWith(args[i], "-Djava.library.path=") })
  IN  IF c.platform # "darwin" \/ hasLWJGLPath THEN args
      ELSE IF xstartIndex > 0 THEN InsertAt(args, xstartIndex + 1, LwjglPathArg(c))
      ELSE IF libraryPathIndex > 0 THEN InsertAt(args, libraryPathIndex + 1, LwjglPathArg(c))
      ELSE InsertAt(args, findJVMArgInsertIndex(args), LwjglPathArg(c))
\* On macOS, ensure org.lwjgl.librarypath is set.
EnsureLwjglPath(args, c) ==
  LET hasLWJGLPath == \E i \in 1..Len(args) : StartsWith(args[i], "-Dorg.lwjgl.librarypath=")
      xstartIndex == FindIndex({ i \in 1..Len(args) : args[i] = Lit("-XstartOnFirstThread") })
      libraryPathIndex == FindIndex({ i \in 1..Len(args) : StartsWith(args[i], "-Djava.library.path=") })
  IN  IF c.platform # "darwin" \/ hasLWJGLPath THEN args
      ELSE IF libraryPathIndex > 0 THEN InsertAt(args, libraryPathIndex + 1, LwjglPathArg(c))
      ELSE IF xstartIndex > 0 THEN InsertAt(args, xstartIndex + 1, LwjglPathArg(c))
      ELSE InsertAt(args, findJVMArgInsertIndex(args), LwjglPathArg(c))


\* ------------------------------------------------------------------ mods
\* JavaScript true, false and undefined as the value of an optional field.
True == "true"
False == "false"
Truthy(v) == v = True

\* mdl.getRequired(): {value, def}; RequiredNull is the default of the parameter
\* of isModEnabled (required = null).
Required(value, def) == [k |-> "obj", value |-> value, def |-> def]
RequiredNull == [k |-> "null", value |-> Undefined, def |-> Undefined]

\* A stored mod configuration: absent (undefined), a boolean, or an object
\* {value, mods} whose fields may be missing.  A mods map is a sequence of
\* <<identifier, configuration>>.
CfgAbsent == [k |-> "absent", value |-> Undefined, hasMods |-> FALSE, mods |-> << >>]
CfgBool(b) == [k |-> "bool", value |-> b, hasMods |-> FALSE, mods |-> << >>]
CfgObj(value, mods) == [k |-> "obj", value |-> value, hasMods |-> TRUE, mods |-> mods]
CfgObjNoMods(value) == [k |-> "obj", value |-> value, hasMods |-> FALSE, mods |-> << >>]

\* The modCfg parameter of resolveModConfiguration: a mods map, or undefined.
ModCfg(map) == [defined |-> TRUE, map |-> map]
ModCfgUndefined == [defined |-> FALSE, map |-> << >>]
\* modCfg[id]
CfgOf(modCfg, id) ==
  IF \E i \in 1..Len(modCfg.map) : modCfg.map[i][1] = id
  THEN modCfg.map[CHOOSE i \in 1..Len(modCfg.map) : modCfg.map[i][1] = id][2]
  ELSE CfgAbsent
\* modCfg[id].mods
ModsOf(cfg) == IF cfg.hasMods THEN ModCfg(cfg.mods) ELSE ModCfgUndefined

\* A module of the distribution: rawModule.type, the versionless identifier,
\* getPath(), getRequired(), rawModule.classpath and subModules.
Module(type, id, path, required, classpath, subModules) ==
  [type |-> type, id |-> id, path |-> path, required |-> required,
   classpath |-> classpath, subModules |-> subModules]

\* An isModEnabled that takes every mod without a stored configuration.
isModEnabledWithoutDefault(modCfg, required) ==
  IF modCfg.k = "absent" THEN True
  ELSE IF modCfg.k = "bool" THEN modCfg.value
  ELSE IF modCfg.value # Undefined THEN modCfg.value ELSE True

\* static isModEnabled(modCfg, required = null)
isModEnabled(modCfg, required) ==
  IF modCfg.k # "absent"
  THEN IF modCfg.k = "bool"
       THEN (IF modCfg.value = True THEN True ELSE False)
       ELSE (IF modCfg.value # Undefined THEN modCfg.value ELSE True)
  ELSE IF required.k # "null" THEN required.def ELSE True

\* The types resolveModConfiguration looks at.
ModTypes == { "ForgeMod", "LiteMod", "LiteLoader", "FabricMod" }

\* A resolution that takes every mod, enabled or not.
shouldResolveAlways(o, e) == TRUE
\* if(!o || (o && e))
shouldResolve(o, e) == ~o \/ (o /\ e)

ModLists(fMods, lMods, threw) == [fMods |-> fMods, lMods |-> lMods, threw |-> threw]
ModListsThrown == ModLists(<< >>, << >>, TRUE)

\* resolveModConfiguration(modCfg, mdls): the enabled forge mods and litemods;
\* threw when a property of undefined is read (TypeError).
RECURSIVE resolveModConfiguration(_, _)
resolveModConfiguration(modCfg, mdls) ==
  IF mdls = << >> THEN ModLists(<< >>, << >>, FALSE)
  ELSE
    LET mdl == Head(mdls)
        type == mdl.type
        cfg == CfgOf(modCfg, mdl.id)
        o == ~Truthy(mdl.required.value)
        e == Truthy(isModEnabled(cfg, mdl.required))
        v == resolveModConfiguration(ModsOf(cfg), mdl.subModules)
        own == IF type \in { "ForgeMod", "FabricMod" }
               THEN ModLists(<< mdl >>, << >>, FALSE) ELSE ModLists(<< >>, << mdl >>, FALSE)
        this ==
          IF type \notin ModTypes THEN ModLists(<< >>, << >>, FALSE)
          ELSE IF ~modCfg.defined THEN ModListsThrown
          ELSE IF ~shouldResolve(o, e) THEN ModLists(<< >>, << >>, FALSE)
          ELSE IF mdl.subModules = << >> THEN own
          ELSE IF cfg.k = "absent" \/ v.threw THEN ModListsThrown
          ELSE IF type = "LiteLoader" THEN v
          ELSE ModLists(v.fMods \o own.fMods, v.lMods \o own.lMods, FALSE)
    IN  IF this.threw THEN ModListsThrown
        ELSE LET rest == resolveModConfiguration(modCfg, Tail(mdls))
             IN  IF rest.threw THEN ModListsThrown
                 ELSE ModLists(this.fMods \o rest.fMods, this.lMods \o rest.lMods, FALSE)


\* ---------------------------------------------------------- the classpath
\* A merge that keeps the entries of both maps.
MergeMapsKeepingBoth(a, b) == a \o b
\* {...a, ...b} on maps kept as sequences of <<key, value>> in insertion order.
RECURSIVE MergeMaps(_, _)
MergeMaps(a, b) ==
  IF b = << >> THEN a
  ELSE LET kv == Head(b)
           hit == \E i \in 1..Len(a) : a[i][1] = kv[1]
           a2 == IF hit THEN [i \in 1..Len(a) |-> IF a[i][1] = kv[1] THEN kv ELSE a[i]]
                 ELSE Append(a, kv)
       IN  MergeMaps(a2, Tail(b))

\* _processClassPathList on one entry: cut after the first ".jar".
processClassPathEntry(path) ==
  IF path = "libraries/net/minecraftforge/forge/forge-universal.jar.pack.xz"
  THEN "libraries/net/minecraftforge/forge/forge-universal.jar"
  ELSE path

\* A flag that only counts when it is declared.
onClasspathWhenDeclared(classpath) == Truthy(classpath)
\* sm.rawModule.classpath ?? true
onClasspath(classpath) == IF classpath = Undefined THEN TRUE ELSE Truthy(classpath)

\* _resolveModuleLibraries(mdl): the map of the libraries below mdl.
RECURSIVE resolveModuleLibrariesFrom(_, _)
resolveModuleLibrariesFrom(subModules, libs) ==
  IF subModules = << >> THEN libs
  ELSE LET sm == Head(subModules)
           own == IF sm.type = "Library" /\ onClasspath(sm.classpath)
                  THEN MergeMaps(libs, << << sm.id, sm.path >> >>) ELSE libs
           res == resolveModuleLibrariesFrom(sm.subModules, << >>)
       IN  resolveModuleLibrariesFrom(Tail(subModules), MergeMaps(own, res))
resolveModuleLibraries(mdl) == resolveModuleLibrariesFrom(mdl.subModules, << >>)

\* mods.sub_modules, read on the array of enabled mods: an array has no such
\* property.
subModulesOfArray(mods) == Undefined

\* The first loop of _resolveServerLibraries: Forge, Fabric and libraries.
RECURSIVE locateLibraries(_, _)
locateLibraries(mdls, libs) ==
  IF mdls = << >> THEN libs
  ELSE LET mdl == Head(mdls)
           own == MergeMaps(libs, << << mdl.id, mdl.path >> >>)
       IN  IF mdl.type \in { "ForgeHosted", "Fabric", "Library" }
           THEN locateLibraries(Tail(mdls), MergeMaps(own, resolveModuleLibraries(mdl)))
           ELSE locateLibraries(Tail(mdls), libs)

\* The second loop of _resolveServerLibraries: the libraries of the mod list.
RECURSIVE modListLibraries(_, _, _)
modListLibraries(mods, i, libs) ==
  IF i > Len(mods) THEN libs
  ELSE IF subModulesOfArray(mods) # Undefined
       THEN modListLibraries(mods, i + 1, MergeMaps(libs, resolveModuleLibraries(mods[i])))
       ELSE modListLibraries(mods, i + 1, libs)

\* _resolveServerLibraries(mods)
resolveServerLibraries(modules, mods) ==
  modListLibraries(mods, 1, locateLibraries(modules, << >>))

\* fs.existsSync(ll.getPath())
MissingPaths == { "modstore/liteloader-missing.jar" }
existsSync(path) == path \notin MissingPaths

\* setupLiteLoader(): usingLiteLoader and llPath after the scan of the top level.
RECURSIVE setupLiteLoaderFrom(_, _, _)
setupLiteLoaderFrom(mdls, modCfg, found) ==
  IF mdls = << >> THEN found
  ELSE LET ll == Head(mdls)
           enabled == \/ Truthy(ll.required.value)
                      \/ Truthy(isModEnabled(CfgOf(modCfg, ll.id), ll.required))
           hit == ll.type = "LiteLoader" /\ enabled /\ existsSync(ll.path)
       IN  setupLiteLoaderFrom(Tail(mdls), modCfg,
                               IF hit THEN [usingLiteLoader |-> TRUE, llPath |-> ll.path]
                               ELSE found)
setupLiteLoader(modules, modCfg) ==
  setupLiteLoaderFrom(modules, modCfg, [usingLiteLoader |-> FALSE, llPath |-> ""])

\* A build that never sees the Fabric loader.
usingFabricLoaderNever(modules) == FALSE
\* this.server.modules.some(mdl => mdl.rawModule.type === Type.Fabric)
usingFabricLoader(modules) == \E i \in 1..Len(modules) : modules[i].type = "Fabric"

\* classpathArg, given the map _resolveMojangLibraries returned.
classpathArg(c, mojangLibs) ==
  LET versionJar == IF ~mcVersionAtLeast(17, c.server.minecraftVersion) \/ c.server.usingFabricLoader
                    THEN << "versions/" \o c.vanillaManifest.id \o ".jar" >> ELSE << >>
      ll == IF c.server.usingLiteLoader THEN << c.server.llPath >> ELSE << >>
      finalLibs == MergeMaps(mojangLibs, c.server.servLibs)
      cpArgs == versionJar \o ll \o [i \in 1..Len(finalLibs) |-> finalLibs[i][2]]
  IN  [i \in 1..Len(cpArgs) |-> processClassPathEntry(cpArgs[i])]

\* cpArgs.join(ProcessBuilder.getClasspathSeparator()), as one string entry.
ClasspathStr(cpArgs) == S(<< [k |-> "cp", list |-> cpArgs] >>)

\* ------------------------------------------- the argument vector, 1.13+
\* if (joinToken) args.push(`-Dfyreth.join_token=${joinToken}`)
\* An argument construction that forgets the token.
JoinTokenArgsOmitted(joinToken) == << >>
\* jvmArgs.push(`-Dfyreth.join_token=${joinToken}`) when a token was passed
JoinTokenArgs(joinToken) ==
  IF joinToken # "" /\ joinToken # Undefined
  THEN << S(<< L("-Dfyreth.join_token="), L(joinToken) >>) >>
  ELSE << >>

\* The Java arguments both paths push: dock options on macOS, -Xmx, -Xms and the
\* configured JVM options.
JavaArgs(c) ==
  (IF c.platform = "darwin"
   THEN << Lit("-Xdock:name=HeliosLauncher"), S(<< L("-Xdock:icon="), L("<images>/minecraft.icns") >>) >>
   ELSE << >>)
  \o << S(<< L("-Xmx"), L(c.config.maxRAM) >>), S(<< L("-Xms"), L(c.config.minRAM) >>) >>
  \o c.config.jvmOptions

\* The Java arguments that are pushed: args.concat(getJVMOptions) gives a new
\* array, the pushes before it go to the array args was taken from.
PushedJavaArgs(c) == SubSeq(JavaArgs(c), 1, Len(JavaArgs(c)) - Len(c.config.jvmOptions))

\* Ely.by: args.unshift(`-javaagent:...=ely.by`) when the injector jar is found.
WithAuthlibInjector(args, c) ==
  IF c.authUser.type = "ely" /\ c.authlibInjectorFound
  THEN << S(<< L("-javaagent:"), L("<resources>/libraries/authlib-injector-1.2.7.jar=ely.by") >>) >> \o args
  ELSE args

\* argStr.replaceAll('${library_directory}', ...).replaceAll('${classpath_separator}', ...)
\*       .replaceAll('${version_name}', ...)
ModJvmArg(e, c) ==
  S([i \in 1..Len(e.s) |->
       IF e.s[i].k # "ph" THEN e.s[i]
       ELSE CASE e.s[i].v = "library_directory" -> L("<commonDir>/libraries")
              [] e.s[i].v = "classpath_separator" -> L(IF c.platform = "win32" THEN ";" ELSE ":")
              [] e.s[i].v = "version_name" -> L(c.modManifest.id)
              [] OTHER -> e.s[i]])

\* logger.error('Access token is missing for Microsoft account!'): the switch
\* comes to auth_access_token for an entry of args and the account has no token
\* (such an entry stays as it is, its val being undefined).
accessTokenErrorLogged(args, c) ==
  /\ c.authUser.accessToken \in { Undefined, "" }
  /\ \E i \in 1..Len(args) :
       /\ IsStr(args[i]) /\ HasPlaceholder(args[i].s)
       /\ Identifier(args[i]) = "auth_access_token"

\* _constructJVMArguments113: threw is a TypeError of the filter pass, done FALSE
\* a main loop that was cut off.
constructJVMArguments113(c, joinToken) ==
  LET modJvm == [i \in 1..Len(c.modManifest.arguments.jvm) |->
                   ModJvmArg(c.modManifest.arguments.jvm[i], c)]
      jvm == c.vanillaManifest.arguments.jvm \o modJvm \o JavaArgs(c) \o JoinTokenArgs(joinToken)
      template == WithAuthlibInjector(jvm, c) \o << Lit(c.modManifest.mainClass) >>
                    \o c.vanillaManifest.arguments.game
      looped == MainLoop(template, 1, c, MaxLoopSteps)
      withForge == looped.args \o processAutoConnectArg(c) \o c.modManifest.arguments.game
      filtered == FilterPass(PostPass(withForge, c), 1, << >>)
  IN  [args |-> EnsureLwjglPath(EnsureLibraryPath(filtered.args, c), c),
       threw |-> filtered.threw, done |-> looped.done,
       errorLogged |-> accessTokenErrorLogged(looped.args, c)]


\* The vanilla manifest object after _constructJVMArguments113.  `let args =
\* this.vanillaManifest.arguments.jvm` is the manifest's own array: the mod JVM
\* arguments and the Java arguments up to -Xms are pushed onto it.  The rule
\* objects of both lists are the manifest's own: a custom-resolution rule
\* overwrites their value when fullscreen is configured.
vanillaManifestAfter113(c) ==
  LET modJvm == [i \in 1..Len(c.modManifest.arguments.jvm) |->
                   ModJvmArg(c.modManifest.arguments.jvm[i], c)]
      pushed == c.vanillaManifest.arguments.jvm \o modJvm \o PushedJavaArgs(c)
      Visited(list) == [i \in 1..Len(list) |->
                          IF list[i].t = "obj" THEN AfterRules(list[i], c.config.fullscreen)
                          ELSE list[i]]
  IN  [c.vanillaManifest EXCEPT !.arguments.jvm = Visited(pushed),
                                !.arguments.game = Visited(c.vanillaManifest.arguments.game)]

\* ---------------------------------------- the argument vector, below 1.13
\* The switch of _resolveForgeArgs.
ForgeArgValue(identifier, c) ==
  CASE identifier = "auth_player_name" -> StrOf(Trim(c.authUser.displayName))
    [] identifier = "version_name" -> Lit(c.server.id)
    [] identifier = "game_directory" -> Lit("<gameDir>")
    [] identifier = "assets_root" -> Lit("<commonDir>/assets")
    [] identifier = "assets_index_name" -> Lit(c.vanillaManifest.assets)
    [] identifier = "auth_uuid" -> StrOf(formatUUID(Trim(c.authUser.uuid)))
    [] identifier = "auth_access_token" -> FieldOrNull(c.authUser.accessToken)
    [] identifier = "user_type" -> Lit(UserType(c.authUser))
    [] identifier = "user_properties" -> Lit("{}")
    [] identifier = "version_type" -> Lit(c.vanillaManifest.type)
    [] identifier = "clientid" ->
         IF c.authUser.type = "microsoft" THEN Lit(ClientId) ELSE Null
    [] identifier = "auth_xuid" -> XuidValue(c.authUser)
    [] OTHER -> Null

\* this._lteMinorVersion(9) on the Forge manifest id
lteMinorVersion9(c) == c.modManifest.minor <= 9

\* _resolveForgeArgs
resolveForgeArgs(c) ==
  LET split == c.modManifest.minecraftArguments
      mcArgs == [i \in 1..Len(split) |->
                   IF HasPlaceholder(split[i].s)
                   THEN LET val == ForgeArgValue(Identifier(split[i]), c)
                        IN  IF val # Null THEN val ELSE split[i]
                   ELSE split[i]]
      resolution == IF c.config.fullscreen
                    THEN << Lit("--fullscreen"), Bool(TRUE) >>
                    ELSE << Lit("--width"), Num(c.config.gameWidth),
                            Lit("--height"), Num(c.config.gameHeight) >>
      modList == << Lit("--modListFile"),
                    IF lteMinorVersion9(c) THEN Lit("forgeModList.json")
                    ELSE S(<< L("absolute:"), L("<gameDir>/forgeModList.json") >>) >>
      all == mcArgs \o processAutoConnectArg(c) \o resolution \o modList
  IN  IF c.server.usingLiteLoader
      THEN << Lit("--tweakClass"), Lit("com.mumfrey.liteloader.launch.LiteLoaderTweaker") >>
           \o all \o << Lit("--modRepo"), Lit("<gameDir>/liteloaderModList.json") >>
      ELSE all

\* _constructJVMArguments112
constructJVMArguments112(c, joinToken) ==
  LET jvm == << Lit("-cp"), c.classpathStr >> \o JavaArgs(c)
               \o << LibraryPathArg(c) >> \o JoinTokenArgs(joinToken)
  IN  [args |-> WithAuthlibInjector(jvm, c) \o << Lit(c.modManifest.mainClass) >>
                  \o resolveForgeArgs(c),
       threw |-> FALSE, done |-> TRUE,
       errorLogged |-> accessTokenErrorLogged(c.modManifest.minecraftArguments, c)]

\* constructJVMArguments: the path by game version.
constructJVMArguments(c, joinToken) ==
  IF mcVersionAtLeast(13, c.server.minecraftVersion)
  THEN constructJVMArguments113(c, joinToken)
  ELSE constructJVMArguments112(c, joinToken)

\* constructModList: the mod list arguments of 1.13+ (none without mods).
constructModList(c) ==
  IF ~c.server.hasMods THEN << >>
  ELSE IF c.server.usingFabricLoader
       THEN << Lit("--fabric.addMods"), S(<< L("@"), L("<gameDir>/forgeMods.list") >>) >>
       ELSE << Lit("--fml.mavenRoots"), Lit("../../common/modstore"),
               Lit("--fml.modLists"), Lit("<gameDir>/forgeMods.list") >>

\* The vector build() hands to spawn.
BuildArgs(c, joinToken) ==
  LET r == constructJVMArguments(c, joinToken)
  IN  [r EXCEPT !.args = IF mcVersionAtLeast(13, c.server.minecraftVersion)
                         THEN r.args \o constructModList(c) ELSE r.args]

\* loggableArgs: the access token entry and the first join token entry starred.
Redact(args, authUser) ==
  LET accessTokenIndex == FindIndex({ i \in 1..Len(args) : args[i] = StrOf(authUser.accessToken) })
      a1 == IF accessTokenIndex > 0 THEN Splice(args, accessTokenIndex, << Lit("**********") >>)
            ELSE args
      joinTokenIndex == FindIndex({ i \in 1..Len(a1) : StartsWith(a1[i], "-Dfyreth.join_token=") })
  IN  IF joinTokenIndex > 0
      THEN Splice(a1, joinTokenIndex, << S(<< L("-Dfyreth.join_token="), L("**********") >>) >>)
      ELSE a1


\* ------------------------------------------------------------- the inputs
Account(type, uuid, displayName, username, accessToken, xuid) ==
  [type |-> type, uuid |-> uuid, displayName |-> displayName, username |-> username,
   accessToken |-> accessToken, xuid |-> xuid]

Accounts ==
  { Account("microsoft", "069a79f444e94726a5befca90e38aaf5", "Steve", Undefined, "access-A", "2535405290"),
    Account("microsoft", "069a79f4-44e9-4726-a5be-fca90e38aaf5", "Steve", Undefined, Undefined, Undefined),
    Account("mojang", "069a79f444e94726a5befca90e38aaf5", "Alex", "alex@example.org", "access-B", Undefined),
    Account("mojang", "069a79f444e94726a5befca90e38aaf5", "Alex", Undefined, Undefined, Undefined),
    Account("ely", "069a79f4-44e9-4726-a5be-fca90e38aaf5", "Erin", Undefined, "access-C", Undefined),
    Account("mojang", "069a79f444e94726a5befca90e38aaf5", "", Undefined, "access-B", Undefined),
    Account("ely", "", "Erin", Undefined, "access-C", Undefined) }

Flag(flag, name) == << Lit(flag), Ph(name) >>

\* arguments.jvm of a 1.13+ vanilla manifest.
VanillaJvm ==
  << Obj(<< OsRule("allow", "osx", "none") >>, "list", << Lit("-XstartOnFirstThread") >>),
     Obj(<< OsRule("allow", "windows", "match") >>, "list",
         << Lit("-Dos.name=Windows 10"), Lit("-Dos.version=10.0") >>),
     Obj(<< OsRule("allow", "windows", "none"), OsRule("disallow", "linux", "none") >>,
         "string", << Lit("-Xss1M") >>),
     S(<< L("-Djava.library.path="), P("natives_directory") >>),
     S(<< L("-Dminecraft.launcher.brand="), P("launcher_name") >>),
     S(<< L("-Dminecraft.launcher.version="), P("launcher_version") >>),
     Lit("-cp"), Ph("classpath") >>

\* arguments.jvm without a library path: the safety net has to add it.
VanillaJvmBare ==
  << Obj(<< OsRule("allow", "osx", "none") >>, "list", << Lit("-XstartOnFirstThread") >>),
     S(<< L("-Djna.tmpdir="), P("natives_directory") >>),
     Lit("-cp"), Ph("classpath") >>

VanillaGame ==
  Flag("--username", "auth_player_name") \o Flag("--version", "version_name")
  \o Flag("--gameDir", "game_directory") \o Flag("--assetsDir", "assets_root")
  \o Flag("--assetIndex", "assets_index_name") \o Flag("--uuid", "auth_uuid")
  \o Flag("--accessToken", "auth_access_token") \o Flag("--userType", "user_type")
  \o Flag("--versionType", "version_type")
  \o << Obj(<< FeatureRule(FALSE) >>, "string", << Lit("--demo") >>),
        Obj(<< FeatureRule(TRUE) >>, "list",
            Flag("--width", "resolution_width") \o Flag("--height", "resolution_height")) >>

VanillaGame120 ==
  Flag("--username", "auth_player_name") \o Flag("--uuid", "auth_uuid")
  \o Flag("--accessToken", "auth_access_token") \o Flag("--clientId", "clientid")
  \o Flag("--xuid", "auth_xuid") \o Flag("--userType", "user_type")
  \o << Obj(<< FeatureRule(TRUE) >>, "list",
            Flag("--width", "resolution_width") \o Flag("--height", "resolution_height")),
        Obj(<< FeatureRule(FALSE) >>, "list", Flag("--quickPlayPath", "quickPlayPath")) >>

\* minecraftArguments.split(' ') of a pre-1.13 Forge manifest.
MinecraftArguments112 ==
  Flag("--username", "auth_player_name") \o Flag("--version", "version_name")
  \o Flag("--gameDir", "game_directory") \o Flag("--assetsDir", "assets_root")
  \o Flag("--assetIndex", "assets_index_name") \o Flag("--uuid", "auth_uuid")
  \o Flag("--accessToken", "auth_access_token") \o Flag("--userType", "user_type")
  \o << Lit("--tweakClass"), Lit("net.minecraftforge.fml.common.launcher.FMLTweaker"),
        Lit("--versionType"), Lit("Forge") >>

MinecraftArguments17 ==
  Flag("--username", "auth_player_name") \o Flag("--uuid", "auth_uuid")
  \o Flag("--accessToken", "auth_access_token") \o Flag("--userProperties", "user_properties")
  \o Flag("--clientId", "clientid") \o Flag("--xuid", "auth_xuid")
  \o Flag("--userType", "user_type")


Server(id, minor, autoconnect, ll, fabric, hasMods) ==
  [id |-> id, minecraftVersion |-> minor, autoconnect |-> autoconnect,
   hostname |-> "play.fyreth.example", port |-> 25565,
   usingLiteLoader |-> ll, llPath |-> "modstore/liteloader.jar",
   usingFabricLoader |-> fabric, hasMods |-> hasMods,
   servLibs |-> << << "com.google.guava:guava", "libraries/guava-25.1.jar" >>,
                   << "net.minecraftforge:forge",
                      "libraries/net/minecraftforge/forge/forge-universal.jar.pack.xz" >> >>]

\* The server as build() knows it before the arguments are constructed: the
\* LiteLoader scan, the Fabric test, and the libraries of the modules and of the
\* enabled mods.
ServerOf(id, minor, autoconnect, modules, modCfg) ==
  LET ll == setupLiteLoader(modules, modCfg)
      modObj == resolveModConfiguration(modCfg, modules)
      uberModArr == modObj.fMods \o modObj.lMods
  IN  [id |-> id, minecraftVersion |-> minor, autoconnect |-> autoconnect,
       hostname |-> "play.fyreth.example", port |-> 25565,
       usingLiteLoader |-> ll.usingLiteLoader, llPath |-> ll.llPath,
       usingFabricLoader |-> usingFabricLoader(modules), hasMods |-> modObj.fMods # << >>,
       servLibs |-> resolveServerLibraries(modules, uberModArr)]

Vanilla(id, jvm, game, libraries) ==
  [id |-> id, assets |-> id, type |-> "release", arguments |-> [jvm |-> jvm, game |-> game],
   libraries |-> libraries]

Mod(id, minor, mainClass, jvm, game, minecraftArguments) ==
  [id |-> id, minor |-> minor, mainClass |-> mainClass,
   arguments |-> [jvm |-> jvm, game |-> game], minecraftArguments |-> minecraftArguments]

\* A launch profile: the server with its vanilla and mod manifest.
Profile(server, vanilla, mod) == [server |-> server, vanilla |-> vanilla, mod |-> mod]

Profile112(libraries) ==
  Profile(Server("fyreth-1.12.2", 12, TRUE, TRUE, FALSE, TRUE),
          Vanilla("1.12.2", << >>, << >>, libraries),
          Mod("1.12.2-forge-14.23.5.2855", 12, "net.minecraft.launchwrapper.Launch",
              << >>, << >>, MinecraftArguments112))
Profile17(libraries) ==
  Profile(Server("fyreth-1.7.10", 7, FALSE, FALSE, FALSE, FALSE),
          Vanilla("1.7.10", << >>, << >>, libraries),
          Mod("1.7.10-Forge10.13.4.1614", 7, "net.minecraft.launchwrapper.Launch",
              << >>, << >>, MinecraftArguments17))
Profile116(libraries) ==
  Profile(Server("fyreth-1.16.5", 16, TRUE, FALSE, FALSE, TRUE),
          Vanilla("1.16.5", VanillaJvm, VanillaGame, libraries),
          Mod("1.16.5-forge-36.2.39", 16, "cpw.mods.modlauncher.Launcher",
              << S(<< L("-DlibraryDirectory="), P("library_directory") >>) >>,
              << Lit("--launchTarget"), Lit("fmlclient") >>, << >>))
Profile120(libraries) ==
  Profile(Server("fyreth-1.20.1", 20, TRUE, FALSE, TRUE, TRUE),
          Vanilla("1.20.1", VanillaJvmBare, VanillaGame120, libraries),
          Mod("fabric-loader-0.15.11-1.20.1", 20, "net.fabricmc.loader.impl.launch.knot.KnotClient",
              << >>, << >>, << >>))

Config(fullscreen, autoConnect) ==
  [fullscreen |-> fullscreen, autoConnect |-> autoConnect, gameWidth |-> 1280,
   gameHeight |-> 720, maxRAM |-> "4G", minRAM |-> "2G",
   jvmOptions |-> << Lit("-XX:+UseG1GC") >>]

JoinTokenNames == << "jt-7f3a", "jt-c901", "jt-55e2", "jt-0b1d" >>
JoinTokens == { JoinTokenNames[i] : i \in 1..NumJoinTokens }

LibNamed(name) == CHOOSE l \in LibCatalog : l.name = name
Libraries0 ==
  << LibNamed("com.google.guava:guava:21.0"), LibNamed("org.lwjgl.lwjgl:lwjgl-platform:2.9.4") >>

\* The catalog in the order the lists keep.
CatalogOrder ==
  << "com.google.guava:guava:21.0", "org.lwjgl.lwjgl:lwjgl-platform:2.9.4",
     "org.lwjgl:lwjgl-glfw:3.2.1", "com.mojang:text2speech:1.10.3",
     "net.java.jinput:jinput-platform:2.0.5", "ca.weblite:java-objc-bridge:1.0.0",
     "tv.twitch:twitch-platform:5.16", "org.lwjgl:lwjgl:3.3.1:natives-macos-arm64",
     "org.lwjgl:lwjgl:3.3.1:natives-macos", "org.lwjgl:lwjgl:3.3.1:natives-linux-x86_64",
     "org.lwjgl:lwjgl:3.3.1:natives-linux-aarch64" >>

\* Library lists of at most n distinct descriptors, taken from position from on.
RECURSIVE LibLists(_, _)
LibLists(n, from) ==
  IF n = 0 \/ from > Len(CatalogOrder) THEN { << >> }
  ELSE LibLists(n, from + 1)
       \cup { << LibNamed(CatalogOrder[from]) >> \o l : l \in LibLists(n - 1, from + 1) }

\* --------------------------------------------------------------- the state
VARIABLES
  host,             \* process.platform, getSystemArchitecture(), whether the injector jar is found
  authUser,         \* this.authUser
  server,           \* this.server
  vanillaManifest,  \* this.vanillaManifest
  modManifest,      \* this.modManifest
  config,           \* what ConfigManager answers
  pc,               \* where build() stands
  handshakeRequests,\* GET /v1/handshake requests sent
  issueRequests,    \* POST /v1/issue requests sent
  joinToken,        \* the token _fetchJoinToken returned ("" before)
  buildError,       \* the error build() rejected with
  outcomes,         \* what the library loop did with each library it reached
  extractPromises,  \* the writes pushed to extractPromises, with their state
  scratch,          \* the files written below tempNativePath
  tempDir,          \* the scratch directory: "absent", "present" or "removed"
  spawnArgs,        \* the vector handed to child_process.spawn
  loggedArgs,       \* the vector logged as 'Launch Arguments:'
  spawns,           \* calls of child_process.spawn
  removeAttempts,   \* calls of fs.remove(tempNativePath)
  log,              \* kinds of message logged
  exchange,         \* the requests sent to the Auth API and the responses, in order
  call,             \* a call of one of the builder's functions on its own: its arguments
  ret,              \* what that call returned
  now,              \* authmanager: Date.now(), in minutes
  selectedAccount,  \* authmanager: the uuid ConfigManager.getSelectedAccount() answers for
  authDatabase,     \* authmanager: the accounts ConfigManager stores, by uuid
  validationCache,  \* authmanager: validationCache.lastValidation and .lastResult
  cachedFor,        \* authmanager: the account and login validationCache.lastResult was computed for
  validations,      \* authmanager: the calls of validateSelected that await their validation
  validated,        \* authmanager: what the last call of validateSelected to return has returned
  client,           \* discordwrapper: the module's client (a number, 0 for null)
  activity,         \* discordwrapper: the module's activity
  isReady,          \* discordwrapper: isReady
  isDestroying,     \* discordwrapper: isDestroying
  clients,          \* discordwrapper: the clients created so far and what each went through
  activityCalls     \* discordwrapper: the calls of setActivity, in order

vars == << host, authUser, server, vanillaManifest, modManifest, config, pc,
           handshakeRequests, issueRequests, joinToken, buildError, outcomes,
           extractPromises, scratch, tempDir, spawnArgs, loggedArgs, spawns,
           removeAttempts, log, exchange, call, ret,
           now, selectedAccount, authDatabase, validationCache, cachedFor, validations,
           validated, client, activity, isReady, isDestroying, clients, activityCalls >>

\* The state of the account manager and of the Discord wrapper: the process
\* builder leaves both alone.
authVars == << now, selectedAccount, authDatabase, validationCache, cachedFor, validations,
              validated >>
rpcVars == << client, activity, isReady, isDestroying, clients, activityCalls >>
launcherVars == << authVars, rpcVars >>

inputs == << host, authUser, server, vanillaManifest, modManifest, config >>

NoError == [cause |-> "", wrapped |-> FALSE]

\* No function is called on its own during a launch.
NoCall == [fn |-> "none"]
Pending == [st |-> "pending"]
Returned(v) == [st |-> "returned", v |-> v]
Threw == [st |-> "threw"]

\* The process builder after construction.
BuilderStarted ==
  /\ pc = "init"
  /\ handshakeRequests = 0 /\ issueRequests = 0
  /\ joinToken = "" /\ buildError = NoError
  /\ outcomes = << >> /\ extractPromises = << >> /\ scratch = {}
  /\ tempDir = "absent"
  /\ spawnArgs = << >> /\ loggedArgs = << >> /\ spawns = 0
  /\ removeAttempts = 0 /\ log = {} /\ exchange = << >>

\* authmanager.js once loaded: no account, `let validationCache = {lastValidation:
\* 0, lastResult: null, ...}`, no call yet.
NoAccount == "<null>"
NoResult == "<null>"
Login(uuid, login) == [account |-> uuid, login |-> login]
NothingValidated == [account |-> NoAccount, login |-> "", result |-> NoResult, by |-> "", for |-> Login(NoAccount, "")]
AuthLoaded ==
  /\ now = 1 /\ selectedAccount = NoAccount /\ authDatabase = << >>
  /\ validationCache = [lastValidation |-> 0, lastResult |-> NoResult]
  /\ cachedFor = Login(NoAccount, "")
  /\ validations = << >> /\ validated = NothingValidated

\* The Discord wrapper once loaded: `let client`, `let activity`, `let isReady =
\* false`, `let isDestroying = false`.
NoClient == 0
NoActivity == [for |-> NoClient, details |-> "<null>"]
RpcLoaded ==
  /\ client = NoClient /\ activity = NoActivity
  /\ isReady = FALSE /\ isDestroying = FALSE
  /\ clients = << >> /\ activityCalls = << >>

Started == BuilderStarted /\ AuthLoaded /\ RpcLoaded

Host(platform, arch, found) ==
  [platform |-> platform, arch |-> arch, authlibInjectorFound |-> found]

SetProfile(p) ==
  /\ server = p.server /\ vanillaManifest = p.vanilla /\ modManifest = p.mod

\* Launches that differ in the account, the templates and the configuration.
InitArguments ==
  /\ \E platform \in Platforms, found \in BOOLEAN : host = Host(platform, "x64", found)
  /\ authUser \in Accounts
  /\ \E p \in { Profile112(Libraries0), Profile17(Libraries0),
                Profile116(Libraries0), Profile120(Libraries0) } : SetProfile(p)
  /\ \E fullscreen \in BOOLEAN, autoConnect \in BOOLEAN : config = Config(fullscreen, autoConnect)
  /\ Started
  /\ call = NoCall /\ ret = Pending

\* Launches that differ in the host and the library list.
InitNatives ==
  /\ \E platform \in Platforms, arch \in Archs : host = Host(platform, arch, TRUE)
  /\ authUser = CHOOSE a \in Accounts : a.type = "microsoft" /\ a.accessToken # Undefined
  /\ \E libraries \in LibLists(MaxLibs, 1) : SetProfile(Profile116(libraries))
  /\ config = Config(FALSE, FALSE)
  /\ Started
  /\ call = NoCall /\ ret = Pending

Init == InitArguments \/ InitNatives

\* What the getters of the argument construction read.
Context(mojangLibs) ==
  LET c0 == [platform |-> host.platform, authlibInjectorFound |-> host.authlibInjectorFound,
             authUser |-> authUser, server |-> server, vanillaManifest |-> vanillaManifest,
             modManifest |-> modManifest, config |-> config,
             tempNativePath |-> "<tmp>/natives/<random>", launcherVersion |-> "2.2.1"]
  IN  [platform |-> c0.platform, authlibInjectorFound |-> c0.authlibInjectorFound,
       authUser |-> authUser, server |-> server, vanillaManifest |-> vanillaManifest,
       modManifest |-> modManifest, config |-> config,
       tempNativePath |-> c0.tempNativePath, launcherVersion |-> c0.launcherVersion,
       classpathStr |-> ClasspathStr(classpathArg(c0, mojangLibs))]

\* The account check with no field ever taken as missing.
FalsyNever(text) == FALSE

Falsy(text) == text = "" \/ text = Undefined


\* -------------------------------------------------------------- the steps
HandshakeResponses == { "ok", "network_error", "timeout", "bad_status", "no_challenge" }
IssueResponses == { "ok", "network_error", "timeout", "bad_status", "no_join_token" }
ExitCodes == { "0", "1", "SIGTERM" }

\* catch (err) { logger.error(...); throw new Error(`Auth API error: ${err.message}`) }
AuthApiError(cause) == [cause |-> cause, wrapped |-> TRUE]
Thrown(cause) == [cause |-> cause, wrapped |-> FALSE]

Sent(request) == [kind |-> "request", to |-> request, res |-> ""]
Received(request, res) == [kind |-> "response", to |-> request, res |-> res]

\* A handshake check that lets a response without a challenge through.
HandshakeAcceptedWithoutChallenge(res) == res \in { "ok", "no_challenge" }
\* handshakeRes.ok and a challenge in the body
HandshakeAccepted(res) == res = "ok"
\* An issue check that lets a response without a join_token through.
IssueAcceptedWithoutToken(res) == res \in { "ok", "no_join_token" }
\* issueRes.ok and a join_token in the body
IssueAccepted(res) == res = "ok"

\* build() up to its first suspension: the account check of _fetchJoinToken and
\* the handshake request.
build ==
  /\ pc = "init"
  /\ IF Falsy(authUser.uuid) \/ Falsy(authUser.displayName)
     THEN /\ pc' = "rejected"
          /\ buildError' = Thrown("incomplete_auth_user")
          /\ UNCHANGED << handshakeRequests, exchange >>
     ELSE /\ pc' = "handshake"
          /\ handshakeRequests' = handshakeRequests + 1
          /\ exchange' = Append(exchange, Sent("handshake"))
          /\ UNCHANGED buildError
  /\ UNCHANGED << inputs, launcherVars, call, ret, issueRequests, joinToken, outcomes, extractPromises, scratch,
                  tempDir, spawnArgs, loggedArgs, spawns, removeAttempts, log >>

\* The handshake request settles; with a challenge the issue request is sent.
HandshakeSettles(res) ==
  /\ pc = "handshake"
  /\ IF HandshakeAccepted(res)
     THEN /\ pc' = "issue"
          /\ issueRequests' = issueRequests + 1
          /\ exchange' = exchange \o << Received("handshake", res), Sent("issue") >>
          /\ UNCHANGED << buildError, log >>
     ELSE /\ pc' = "rejected"
          /\ buildError' = AuthApiError(res)
          /\ log' = log \cup { "error fetching join_token" }
          /\ exchange' = Append(exchange, Received("handshake", res))
          /\ UNCHANGED issueRequests
  /\ UNCHANGED << inputs, launcherVars, call, ret, handshakeRequests, joinToken, outcomes, extractPromises, scratch,
                  tempDir, spawnArgs, loggedArgs, spawns, removeAttempts >>

\* The writes the library loop pushed, in order.
IssuedWrites(loop) == Flatten([i \in 1..Len(loop) |-> loop[i].writes])
\* The classpath map the library loop filled.
MojangLibs(loop) == MergeMaps(<< >>, Flatten([i \in 1..Len(loop) |-> loop[i].cp]))

\* The issue request settles; with a token the construction of the arguments
\* starts and runs _resolveMojangLibraries up to its await.
IssueSettles(res, tok) ==
  /\ pc = "issue"
  /\ exchange' = Append(exchange, Received("issue", res))
  /\ IF IssueAccepted(res)
     THEN LET loop == LibraryLoop(vanillaManifest.libraries, 1, host.platform, host.arch)
              threw == loop # << >> /\ loop[Len(loop)].threw
          IN  /\ joinToken' = IF res = "ok" THEN tok ELSE Undefined
              /\ tempDir' = "present"
              /\ outcomes' = loop
              /\ extractPromises' = IssuedWrites(loop)
              /\ pc' = IF threw THEN "rejected" ELSE "extract"
              /\ buildError' = IF threw THEN Thrown("archive_read") ELSE buildError
              /\ UNCHANGED log
     ELSE /\ pc' = "rejected"
          /\ buildError' = AuthApiError(res)
          /\ log' = log \cup { "error fetching join_token" }
          /\ UNCHANGED << joinToken, tempDir, outcomes, extractPromises >>
  /\ UNCHANGED << inputs, launcherVars, call, ret, handshakeRequests, issueRequests, scratch, spawnArgs,
                  loggedArgs, spawns, removeAttempts >>

\* A write without its catch handler: a failure rejects the pushed promise.
writeFileUncaught(ok) == IF ok THEN "written" ELSE "rejected"
\* fs.promises.writeFile(...).catch(err => logger.error(...)): the state of the
\* pushed promise once the write has ended.
writeFileCaught(ok) == IF ok THEN "written" ELSE "failed"

\* The scratch directory holds no sub-directory: a write below one, or to a
\* directory name, cannot succeed.
CanSucceed(w) == Len(w.target) = 1 /\ ~w.dir /\ tempDir = "present"

\* One write ends.
WriteSettles(k, ok) ==
  /\ k \in 1..Len(extractPromises)
  /\ extractPromises[k].st = "pending"
  /\ ok => CanSucceed(extractPromises[k])
  /\ extractPromises' = [extractPromises EXCEPT ![k].st = writeFileCaught(ok)]
  /\ scratch' = IF ok THEN scratch \cup { extractPromises[k].target } ELSE scratch
  /\ log' = IF ok THEN log ELSE log \cup { "error while extracting native library" }
  /\ UNCHANGED << inputs, launcherVars, call, ret, pc, handshakeRequests, issueRequests, joinToken, buildError,
                  outcomes, tempDir, spawnArgs, loggedArgs, spawns, removeAttempts, exchange >>

\* A construction that goes on without waiting for the writes.
PromiseAllUnawaited(promises) == "fulfilled"
\* await Promise.all(extractPromises)
PromiseAll(promises) ==
  IF \E k \in 1..Len(promises) : promises[k].st = "rejected" THEN "rejected"
  ELSE IF \E k \in 1..Len(promises) : promises[k].st = "pending" THEN "pending"
  ELSE "fulfilled"

\* The rest of build(): the argument vector, the redacted log line, the spawn.
ExtractionAwaited ==
  /\ pc = "extract"
  /\ PromiseAll(extractPromises) # "pending"
  /\ LET r == BuildArgs(Context(MojangLibs(outcomes)), joinToken)
     IN  IF PromiseAll(extractPromises) = "rejected" \/ r.threw \/ ~r.done
         THEN /\ pc' = IF PromiseAll(extractPromises) # "rejected" /\ ~r.done
                       THEN "looping" ELSE "rejected"
              /\ buildError' = IF PromiseAll(extractPromises) = "rejected"
                               THEN Thrown("write_failed") ELSE Thrown("type_error")
              /\ UNCHANGED << spawnArgs, loggedArgs, spawns >>
         ELSE /\ pc' = "running"
              /\ spawnArgs' = r.args
              /\ loggedArgs' = Redact(r.args, authUser)
              /\ spawns' = spawns + 1
              /\ UNCHANGED buildError
  /\ UNCHANGED << inputs, launcherVars, call, ret, handshakeRequests, issueRequests, joinToken, outcomes,
                  extractPromises, scratch, tempDir, removeAttempts, log, exchange >>

\* A close handler that leaves the scratch directory alone.
ChildCloseKeepsScratch(code) ==
  /\ pc = "running"
  /\ pc' = "closing"
  /\ log' = log \cup { "exited with code " \o code }
  /\ UNCHANGED << inputs, launcherVars, call, ret, handshakeRequests, issueRequests, joinToken, buildError, outcomes,
                  extractPromises, scratch, tempDir, spawnArgs, loggedArgs, spawns,
                  removeAttempts, exchange >>

\* child.on('close', ...): the exit is logged and fs.remove(tempNativePath) called.
ChildClose(code) ==
  /\ pc = "running"
  /\ pc' = "closing"
  /\ removeAttempts' = removeAttempts + 1
  /\ log' = log \cup { "exited with code " \o code }
  /\ UNCHANGED << inputs, launcherVars, call, ret, handshakeRequests, issueRequests, joinToken, buildError, outcomes,
                  extractPromises, scratch, tempDir, spawnArgs, loggedArgs, spawns, exchange >>

\* The callback of fs.remove: a warning on failure, nothing else.
RemoveSettles(err) ==
  /\ pc = "closing"
  /\ pc' = "done"
  /\ tempDir' = IF err THEN tempDir ELSE "removed"
  /\ scratch' = IF err THEN scratch ELSE {}
  /\ log' = log \cup { IF err THEN "error while deleting temp dir" ELSE "temp dir deleted" }
  /\ UNCHANGED << inputs, launcherVars, call, ret, handshakeRequests, issueRequests, joinToken, buildError, outcomes,
                  extractPromises, spawnArgs, loggedArgs, spawns, removeAttempts, exchange >>

Next ==
  \/ build
  \/ \E res \in HandshakeResponses : HandshakeSettles(res)
  \/ \E res \in IssueResponses, tok \in JoinTokens : IssueSettles(res, tok)
  \/ \E k \in 1..Len(extractPromises), ok \in BOOLEAN : WriteSettles(k, ok)
  \/ ExtractionAwaited
  \/ \E code \in ExitCodes : ChildClose(code)
  \/ \E err \in BOOLEAN : RemoveSettles(err)

Spec == Init /\ [][Next]_vars


\* ------------------------------------------- calls of the builder's functions
\* The state of a launch, which a call on its own leaves alone.
buildVars == << pc, handshakeRequests, issueRequests, joinToken, buildError, outcomes,
                extractPromises, scratch, tempDir, spawnArgs, loggedArgs, spawns,
                removeAttempts, log, exchange >>

DefaultInputs ==
  /\ host = Host("linux", "x64", TRUE)
  /\ authUser = CHOOSE a \in Accounts : a.type = "microsoft" /\ a.accessToken # Undefined
  /\ SetProfile(Profile116(Libraries0))
  /\ config = Config(FALSE, FALSE)

\* Stored configurations and requirement declarations isModEnabled is called with.
StoredConfigurations ==
  { CfgAbsent, CfgBool(True), CfgBool(False), CfgObjNoMods(True), CfgObjNoMods(False),
    CfgObjNoMods(Undefined), CfgObj(True, << >>) }
Requirements ==
  { RequiredNull } \cup { Required(v, d) : v \in { True, False }, d \in { True, False, Undefined } }
IsModEnabledCalls ==
  { [fn |-> "isModEnabled", modCfg |-> cfg, required |-> r] :
      cfg \in StoredConfigurations, r \in Requirements }

\* A distribution: a top-level mod with two sub-modules, the first with two
\* children of its own; a mod without sub-modules; a library that holds a mod.
ModDistribution(topType, soloType, reqTop, reqA, reqB, reqSolo) ==
  << Module(topType, "fyreth:core", "modstore/core.jar", reqTop, Undefined,
            << Module("ForgeMod", "fyreth:maps", "modstore/maps.jar", reqA, Undefined,
                      << Module("ForgeMod", "fyreth:maps-hd", "modstore/maps-hd.jar",
                                Required(False, True), Undefined, << >>),
                         Module("LiteMod", "fyreth:maps-lite", "modstore/maps-lite.litemod",
                                Required(True, True), Undefined, << >>) >>),
               Module("FabricMod", "fyreth:chat", "modstore/chat.jar", reqB, Undefined, << >>) >>),
     Module(soloType, "fyreth:solo", "modstore/solo.jar", reqSolo, Undefined, << >>),
     Module("Library", "fyreth:shared", "libraries/shared.jar", Required(True, True), Undefined,
            << Module("ForgeMod", "fyreth:hidden", "modstore/hidden.jar",
                      Required(True, True), Undefined, << >>) >>) >>

\* The stored configuration of that distribution.
MapsMods == << << "fyreth:maps-hd", CfgBool(True) >> >>
MapsConfigurations ==
  { CfgAbsent, CfgObj(False, MapsMods), CfgObj(True, MapsMods), CfgObj(Undefined, MapsMods) }
ChatConfigurations == { CfgAbsent, CfgBool(True), CfgBool(False) }
CoreMods(cfgA, cfgB) ==
  (IF cfgA = CfgAbsent THEN << >> ELSE << << "fyreth:maps", cfgA >> >>)
  \o (IF cfgB = CfgAbsent THEN << >> ELSE << << "fyreth:chat", cfgB >> >>)
CoreConfigurations(cfgA, cfgB) ==
  { CfgAbsent, CfgBool(True), CfgObjNoMods(True), CfgObj(True, CoreMods(cfgA, cfgB)),
    CfgObj(False, CoreMods(cfgA, cfgB)), CfgObj(Undefined, CoreMods(cfgA, cfgB)) }
ModConfigurations ==
  { ModCfg(IF cfgTop = CfgAbsent THEN << >> ELSE << << "fyreth:core", cfgTop >> >>) :
      cfgTop \in UNION { CoreConfigurations(cfgA, cfgB) :
                           cfgA \in MapsConfigurations, cfgB \in ChatConfigurations } }
ModDistributions ==
  { ModDistribution(topType, soloType, Required(vTop, True), Required(vA, dA), Required(vB, True),
                    Required(False, dSolo)) :
      topType \in { "ForgeMod", "LiteLoader" }, soloType \in { "ForgeMod", "LiteLoader" },
      vTop \in { True, False },
      vA \in { True, False }, dA \in { True, False }, vB \in { True, False },
      dSolo \in { True, False } }
ResolveCalls ==
  { [fn |-> "resolveModConfiguration", modCfg |-> m, mdls |-> d] :
      m \in ModConfigurations, d \in ModDistributions }

\* A distribution for the classpath: the loader with a library that overrides a
\* manifest library and holds a library of its own, a mod that declares a
\* library, and LiteLoader or not.
Flags == { Undefined, True, False }
LiteLoaderModules ==
  { << >>,
    << Module("LiteLoader", "com.mumfrey:liteloader", "modstore/liteloader.jar",
              Required(True, True), Undefined, << >>) >>,
    << Module("LiteLoader", "com.mumfrey:liteloader", "modstore/liteloader-missing.jar",
              Required(True, True), Undefined, << >>) >> }
ClasspathDistribution(loaderType, loaderFlag, guavaFlag, nettyFlag, modLibFlag, reqMod, lite) ==
  << Module(loaderType, "fyreth:loader", "libraries/fyreth/loader/loader.jar",
            Required(True, True), loaderFlag,
            << Module("Library", "com.google.guava:guava",
                      "libraries/com/google/guava/guava/25.1/guava-25.1.jar",
                      Required(True, True), guavaFlag,
                      << Module("Library", "io.netty:netty-all",
                                "libraries/io/netty/netty-all/4.1.9/netty-all-4.1.9.jar",
                                Required(True, True), nettyFlag, << >>) >>) >>),
     Module("ForgeMod", "fyreth:core", "modstore/core.jar", reqMod, Undefined,
            << Module("Library", "fyreth:corelib", "libraries/fyreth/corelib/corelib.jar",
                      Required(True, True), modLibFlag, << >>) >>) >> \o lite
ClasspathDistributions ==
  { ClasspathDistribution(loaderType, loaderFlag, guavaFlag, nettyFlag, modLibFlag,
                          Required(vMod, True), lite) :
      loaderType \in { "ForgeHosted", "Fabric" }, loaderFlag \in { Undefined, False },
      guavaFlag \in Flags, nettyFlag \in Flags, modLibFlag \in { Undefined, False },
      vMod \in { True, False }, lite \in LiteLoaderModules }
ClasspathConfigurations ==
  { ModCfg(<< << "fyreth:core", CfgObj(v, << >>) >> >>) : v \in { True, False } }
\* What _resolveMojangLibraries returns: with and without the manifest's guava.
MojangMaps ==
  { << << "org.lwjgl:lwjgl", "libraries/org/lwjgl/lwjgl/3.2.1/lwjgl-3.2.1.jar" >> >>,
    << << "com.google.guava:guava", "libraries/com/google/guava/guava/21.0/guava-21.0.jar" >>,
       << "org.lwjgl:lwjgl", "libraries/org/lwjgl/lwjgl/3.2.1/lwjgl-3.2.1.jar" >> >> }
MinorVersions == { 12, 16, 17, 20 }
ClasspathCalls ==
  { [fn |-> "classpathArg", minor |-> v, modules |-> d, modCfg |-> m, mojangLibs |-> l] :
      v \in MinorVersions, d \in ClasspathDistributions, m \in ClasspathConfigurations,
      l \in MojangMaps }

InitModCalls ==
  /\ DefaultInputs /\ Started
  /\ call \in IsModEnabledCalls \cup ResolveCalls
  /\ ret = Pending

\* ProcessBuilder.isModEnabled(modCfg, required)
CallIsModEnabled ==
  /\ call.fn = "isModEnabled" /\ ret = Pending
  /\ ret' = Returned(isModEnabled(call.modCfg, call.required))
  /\ UNCHANGED << inputs, launcherVars, buildVars, call >>

\* this.resolveModConfiguration(modCfg, mdls)
CallResolveModConfiguration ==
  /\ call.fn = "resolveModConfiguration" /\ ret = Pending
  /\ LET v == resolveModConfiguration(call.modCfg, call.mdls)
     IN  ret' = IF v.threw THEN Threw ELSE Returned(v)
  /\ UNCHANGED << inputs, launcherVars, buildVars, call >>

\* Rule lists of at most two rules, and the conditional-rule objects with a
\* string or a list for a value.
Rules ==
  { OsRule(action, name, version) :
      action \in { "allow", "disallow" }, name \in { "osx", "linux" },
      version \in { "none", "match", "nomatch" } }
  \cup { FeatureRule(TRUE), FeatureRule(FALSE) }
RuleLists == { << >> } \cup { << r >> : r \in Rules } \cup { << r1, r2 >> : r1 \in Rules, r2 \in Rules }
RuleObjects ==
  { Obj(rules, "string", << Lit("-XstartOnFirstThread") >>) : rules \in RuleLists }
  \cup { Obj(rules, "list", << Lit("--width"), Lit("854") >>) : rules \in RuleLists }
MainPassCalls ==
  { [fn |-> "mainPass", args |-> << Lit("-Xss1M"), o, Lit("--demo") >>] : o \in RuleObjects }

InitPassCalls ==
  /\ host \in { Host(p, "x64", TRUE) : p \in Platforms }
  /\ authUser = CHOOSE a \in Accounts : a.type = "microsoft" /\ a.accessToken # Undefined
  /\ SetProfile(Profile116(Libraries0))
  /\ config \in { Config(fullscreen, FALSE) : fullscreen \in BOOLEAN }
  /\ Started
  /\ call \in MainPassCalls
  /\ ret = Pending

\* The main pass of _constructJVMArguments113 over call.args.
CallMainPass ==
  /\ call.fn = "mainPass" /\ ret = Pending
  /\ LET looped == MainLoop(call.args, 1, Context(<< >>), MaxLoopSteps)
     IN  ret' = IF looped.done THEN Returned(looped.args) ELSE Pending
  /\ UNCHANGED << inputs, launcherVars, buildVars, call >>

\* Game arguments of a vanilla manifest: at most MaxTemplate entries, each a
\* flag, a plain value, a rule object for macOS or one for a feature the
\* launcher does not know.
TemplateEntries ==
  { Lit("--demo"), Lit("854"),
    Obj(<< OsRule("allow", "osx", "none") >>, "string", << Lit("--fullscreen") >>),
    Obj(<< FeatureRule(FALSE) >>, "list", << Lit("--quickPlayPath"), Lit("quickPlay/log.json") >>) }
RECURSIVE Templates(_)
Templates(n) ==
  IF n = 0 THEN { << >> }
  ELSE Templates(n - 1) \cup { Append(t, e) : t \in { u \in Templates(n - 1) : Len(u) = n - 1 },
                                               e \in TemplateEntries }

InitConstructCalls ==
  /\ host \in { Host(p, "x64", TRUE) : p \in Platforms }
  /\ authUser = CHOOSE a \in Accounts : a.type = "microsoft" /\ a.accessToken # Undefined
  /\ \E game \in Templates(MaxTemplate) :
       SetProfile(Profile(Server("fyreth-1.16.5", 16, TRUE, FALSE, FALSE, TRUE),
                          Vanilla("1.16.5", VanillaJvm, game, Libraries0),
                          Profile116(Libraries0).mod))
  /\ config = Config(FALSE, FALSE)
  /\ Started
  /\ call = [fn |-> "constructJVMArguments113"]
  /\ ret = Pending

\* this._constructJVMArguments113(mods, tempNativePath, joinToken)
CallConstructJVMArguments113 ==
  /\ call.fn = "constructJVMArguments113" /\ ret = Pending
  /\ LET r == constructJVMArguments113(Context(<< >>), "")
     IN  ret' = IF r.threw THEN Threw ELSE Returned(r.args)
  /\ UNCHANGED << inputs, launcherVars, buildVars, call >>

\* What the filter pass is given: at most MaxArgs entries, each null, an empty
\* string, a flag, a plain string or a number.
FilterEntries == { Null, S(<< >>), Lit("--demo"), Lit("--width"), Lit("854"), Num(1280) }
RECURSIVE ArgLists(_)
ArgLists(n) ==
  IF n = 0 THEN { << >> }
  ELSE ArgLists(n - 1) \cup { Append(t, e) : t \in { u \in ArgLists(n - 1) : Len(u) = n - 1 },
                                             e \in FilterEntries }
FilterCalls == { [fn |-> "filterPass", args |-> a] : a \in ArgLists(MaxArgs) }

InitFilterCalls ==
  /\ DefaultInputs /\ Started
  /\ call \in FilterCalls
  /\ ret = Pending

\* The filter pass of _constructJVMArguments113 over call.args.
CallFilterPass ==
  /\ call.fn = "filterPass" /\ ret = Pending
  /\ LET r == FilterPass(call.args, 1, << >>)
     IN  ret' = IF r.threw THEN Threw ELSE Returned(r.args)
  /\ UNCHANGED << inputs, launcherVars, buildVars, call >>

\* normalizeArchitecture(arch, platform, true), and normalizeArchitecture(.,
\* platform, false) of what it returned.
NormalizeCalls ==
  { [fn |-> "normalizeArchitecture", arch |-> a, platform |-> p] :
      a \in { "arm64", "x64", "aarch64", "x86_64", "ia32" }, p \in Platforms }

InitNormalizeCalls ==
  /\ DefaultInputs /\ Started
  /\ call \in NormalizeCalls
  /\ ret = Pending

CallNormalizeArchitecture ==
  /\ call.fn = "normalizeArchitecture" /\ ret = Pending
  /\ LET mojang == normalizeArchitecture(call.arch, call.platform, TRUE)
     IN  ret' = Returned([mojang |-> mojang,
                          back |-> normalizeArchitecture(mojang, call.platform, FALSE)])
  /\ UNCHANGED << inputs, launcherVars, buildVars, call >>

\* _processAutoConnectArg(args) for servers of several game versions, declared
\* for auto-connect or not, with auto-connect configured or not.
AutoConnectServers ==
  { Server("fyreth-call", minor, autoconnect, FALSE, FALSE, FALSE) :
      minor \in { 12, 16, 19, 20, 21 }, autoconnect \in BOOLEAN }
AutoConnectCalls ==
  { [fn |-> "processAutoConnectArg", args |-> a] :
      a \in { << >>, << Lit("--demo") >>, << Lit("--width"), Num(1280) >> } }

InitAutoConnectCalls ==
  /\ host = Host("linux", "x64", TRUE)
  /\ authUser = CHOOSE a \in Accounts : a.type = "microsoft" /\ a.accessToken # Undefined
  /\ \E s \in AutoConnectServers :
       SetProfile(Profile(s, Profile116(Libraries0).vanilla, Profile116(Libraries0).mod))
  /\ config \in { Config(FALSE, autoConnect) : autoConnect \in BOOLEAN }
  /\ Started
  /\ call \in AutoConnectCalls
  /\ ret = Pending

CallProcessAutoConnectArg ==
  /\ call.fn = "processAutoConnectArg" /\ ret = Pending
  /\ ret' = Returned(call.args \o processAutoConnectArg(Context(<< >>)))
  /\ UNCHANGED << inputs, launcherVars, buildVars, call >>

\* The vectors the safety net for the native library paths is given.
VectorEntries ==
  { Lit("-cp"), Lit("libraries/a.jar"), Lit("-XstartOnFirstThread"), Lit("-Xss1M"),
    S(<< L("-Djava.library.path="), L("natives") >>),
    S(<< L("-Dorg.lwjgl.librarypath="), L("natives") >>), Lit("--demo") }
RECURSIVE Vectors(_)
Vectors(n) ==
  IF n = 0 THEN { << >> }
  ELSE Vectors(n - 1) \cup { Append(t, e) : t \in { u \in Vectors(n - 1) : Len(u) = n - 1 },
                                           e \in VectorEntries }
SafetyNetCalls == { [fn |-> "librarySafetyNet", args |-> a] : a \in Vectors(MaxArgs) }

InitSafetyNetCalls ==
  /\ host \in { Host(p, "x64", TRUE) : p \in { "darwin", "linux" } }
  /\ authUser = CHOOSE a \in Accounts : a.type = "microsoft" /\ a.accessToken # Undefined
  /\ SetProfile(Profile116(Libraries0))
  /\ config = Config(FALSE, FALSE)
  /\ Started
  /\ call \in SafetyNetCalls
  /\ ret = Pending

\* The end of _constructJVMArguments113 over call.args: java.library.path is
\* ensured, then on macOS org.lwjgl.librarypath.
CallLibrarySafetyNet ==
  /\ call.fn = "librarySafetyNet" /\ ret = Pending
  /\ LET withLibraryPath == EnsureLibraryPath(call.args, Context(<< >>))
     IN  ret' = Returned([libraryPath |-> withLibraryPath,
                          args |-> EnsureLwjglPath(withLibraryPath, Context(<< >>))])
  /\ UNCHANGED << inputs, launcherVars, buildVars, call >>

\* Game arguments that hand over the access token: in one entry, in two, and
\* inside a session string.
TokenTemplates ==
  { Flag("--username", "auth_player_name") \o Flag("--accessToken", "auth_access_token"),
    Flag("--accessToken", "auth_access_token") \o Flag("--session", "auth_access_token"),
    Flag("--uuid", "auth_uuid")
      \o << Lit("--session"),
            S(<< L("token:"), P("auth_access_token"), L(":"), P("auth_uuid") >>) >> }

InitLaunchCalls ==
  /\ host = Host("linux", "x64", TRUE)
  /\ authUser \in Accounts
  /\ \E game \in TokenTemplates :
       SetProfile(Profile(Server("fyreth-1.16.5", 16, TRUE, FALSE, FALSE, TRUE),
                          Vanilla("1.16.5", VanillaJvm, game, Libraries0),
                          Profile116(Libraries0).mod))
  /\ config = Config(FALSE, FALSE)
  /\ Started
  /\ call \in { [fn |-> "launchArguments", joinToken |-> t] : t \in JoinTokens }
  /\ ret = Pending

\* build() from the construction of the arguments to the log line: the vector
\* for spawn and the vector that is logged.
CallLaunchArguments ==
  /\ call.fn = "launchArguments" /\ ret = Pending
  /\ LET r == BuildArgs(Context(<< >>), call.joinToken)
     IN  ret' = IF r.threw THEN Threw
                ELSE Returned([args |-> r.args, loggableArgs |-> Redact(r.args, authUser),
                               errorLogged |-> r.errorLogged])
  /\ UNCHANGED << inputs, launcherVars, buildVars, call >>

\* The names the main pass knows, and a name neither pass knows.
PlaceholderNames ==
  { "auth_player_name", "version_name", "game_directory", "assets_root", "assets_index_name",
    "auth_uuid", "auth_access_token", "user_type", "clientid", "auth_xuid", "version_type",
    "resolution_width", "resolution_height", "natives_directory", "launcher_name",
    "launcher_version", "classpath", "quickPlayPath" }

InitPlaceholderCalls ==
  /\ host = Host("linux", "x64", TRUE)
  /\ authUser \in Accounts
  /\ SetProfile(Profile116(Libraries0))
  /\ config = Config(FALSE, FALSE)
  /\ Started
  /\ call \in { [fn |-> "resolvePlaceholder", key |-> n] : n \in PlaceholderNames }
  /\ ret = Pending

\* The value the switch of the main pass assigns to the entry '${key}', and
\* resolvePlaceholder(key) of the post-pass.
CallResolvePlaceholder ==
  /\ call.fn = "resolvePlaceholder" /\ ret = Pending
  /\ ret' = Returned([main |-> MainPassValue(call.key, Ph(call.key), Context(<< >>)),
                      post |-> resolvePlaceholder(call.key, Context(<< >>))])
  /\ UNCHANGED << inputs, launcherVars, buildVars, call >>

\* The issue request body with the access token of every account type.
issueRequestBodyWithToken(a, challenge) ==
  [k \in {"challenge", "uuid", "name", "userType", "accessToken"} |->
     CASE k = "challenge" -> challenge
       [] k = "uuid" -> formatUUID(a.uuid)
       [] k = "name" -> a.displayName
       [] k = "userType" -> "mojang"
       [] OTHER -> a.accessToken]

\* _fetchJoinToken, the body of the issue request: a JSON object as a function
\* from its keys.  xuid and accessToken are added inside the microsoft branch,
\* each when it is truthy.
issueRequestBody(a, challenge) ==
  LET userType == IF a.type = "microsoft" THEN "msa"
                  ELSE IF a.type = "ely" THEN "ely" ELSE "mojang"
      keys == {"challenge", "uuid", "name", "userType"}
                \cup (IF a.type = "microsoft" /\ ~Falsy(a.xuid) THEN {"xuid"} ELSE {})
                \cup (IF a.type = "microsoft" /\ ~Falsy(a.accessToken) THEN {"accessToken"} ELSE {})
  IN  [k \in keys |->
         CASE k = "challenge" -> challenge
           [] k = "uuid" -> formatUUID(Trim(a.uuid))
           [] k = "name" -> a.displayName
           [] k = "userType" -> userType
           [] k = "xuid" -> a.xuid
           [] OTHER -> a.accessToken]

\* The accounts of the issue request: the launcher's, a Microsoft account with
\* an xuid and no access token, and one with an access token and no xuid.
IssueAccounts ==
  Accounts \cup
  { Account("microsoft", "069a79f444e94726a5befca90e38aaf5", "Steve", Undefined, Undefined, "2535405290"),
    Account("microsoft", "069a79f444e94726a5befca90e38aaf5", "Steve", Undefined, "access-A", Undefined) }

Challenges == {"challenge-1", "challenge-2"}

InitIssueCalls ==
  /\ host = Host("linux", "x64", TRUE)
  /\ authUser \in IssueAccounts
  /\ SetProfile(Profile116(Libraries0))
  /\ config = Config(FALSE, FALSE)
  /\ Started
  /\ call \in { [fn |-> "issueRequest", challenge |-> ch] : ch \in Challenges }
  /\ ret = Pending

\* _fetchJoinToken up to the issue request, the handshake having returned the
\* challenge.
CallIssueRequest ==
  /\ call.fn = "issueRequest" /\ ret = Pending
  /\ ret' = IF Falsy(authUser.uuid) \/ Falsy(authUser.displayName) THEN Threw
             ELSE Returned(issueRequestBody(authUser, call.challenge))
  /\ UNCHANGED << inputs, launcherVars, buildVars, call >>

\* Two consecutive constructions from the same manifest objects.
InitConstructTwiceCalls ==
  /\ host \in { Host(p, "x64", TRUE) : p \in Platforms }
  /\ authUser \in { a \in Accounts : a.uuid # "" /\ a.displayName # "" }
  /\ SetProfile(Profile116(Libraries0))
  /\ config \in { Config(fullscreen, FALSE) : fullscreen \in BOOLEAN }
  /\ Started
  /\ call = [fn |-> "constructTwice"]
  /\ ret = Pending

\* this._constructJVMArguments113(...) twice: the second one reads the manifest
\* object the first one left.
CallConstructTwice ==
  /\ call.fn = "constructTwice" /\ ret = Pending
  /\ LET c == Context(<< >>)
         first == constructJVMArguments113(c, "")
         left == vanillaManifestAfter113(c)
         second == constructJVMArguments113([c EXCEPT !.vanillaManifest = left], "")
     IN  ret' = IF first.threw \/ second.threw THEN Threw
                ELSE Returned([first |-> first.args, vanillaManifest |-> left,
                               second |-> second.args])
  /\ UNCHANGED << inputs, launcherVars, buildVars, call >>

\* compareArchitecture(arch1, arch2, platform) and the same with the two
\* architectures exchanged.
CompareCalls ==
  { [fn |-> "compareArchitecture", arch1 |-> a, arch2 |-> b, platform |-> p] :
      a \in { "arm64", "x64", "aarch64", "x86_64", "ia32" },
      b \in { "arm64", "x64", "aarch64", "x86_64", "ia32" }, p \in Platforms }

InitCompareCalls ==
  /\ DefaultInputs /\ Started
  /\ call \in CompareCalls
  /\ ret = Pending

CallCompareArchitecture ==
  /\ call.fn = "compareArchitecture" /\ ret = Pending
  /\ ret' = Returned([forth |-> compareArchitecture(call.arch1, call.arch2, call.platform),
                       back |-> compareArchitecture(call.arch2, call.arch1, call.platform)])
  /\ UNCHANGED << inputs, launcherVars, buildVars, call >>

\* getSystemArchitecture() for the answers of the three commands and of the
\* runtime.
SystemArchitectureCalls ==
  { [fn |-> "getSystemArchitecture", platform |-> p, procTranslated |-> t, archResult |-> a,
     unameResult |-> u, osArch |-> o] :
      p \in Platforms, t \in { "1", "0", "", ExecFails },
      a \in { "arm64", "i386", "x86_64", "", ExecFails },
      u \in { "arm64", "x86_64", "", ExecFails }, o \in { "arm64", "x64", "ia32" } }

InitSystemArchitectureCalls ==
  /\ DefaultInputs /\ Started
  /\ call \in SystemArchitectureCalls
  /\ ret = Pending

CallGetSystemArchitecture ==
  /\ call.fn = "getSystemArchitecture" /\ ret = Pending
  /\ ret' = Returned(getSystemArchitecture(call.platform, call.procTranslated, call.archResult,
                                            call.unameResult, call.osArch))
  /\ UNCHANGED << inputs, launcherVars, buildVars, call >>

\* ------------------------------------------------ Microsoft account validation
\* calculateExpiryDate(nowMs, expiresInS).
calculateExpiryDate(nowMs, expiresInS) == nowMs + ((expiresInS - 10) * 1000)

ExpiredStrictly(nowMs, expiresAt) == nowMs > expiresAt

\* now >= expiresAt, as validateSelectedMicrosoftAccount compares.
Expired(nowMs, expiresAt) == nowMs >= expiresAt

\* The answers of getAccessToken and of getMCAccessToken.
NewMsToken ==
  [access_token |-> "ms-access-new", refresh_token |-> "ms-refresh-new", expires_in |-> 3600]

NewMcToken == [access_token |-> "mc-access-new", expires_in |-> 86400]

Request(name, with) == [request |-> name, with |-> with]

\* The requests of fullMicrosoftAuthFlow in the order it awaits them.
FlowRequests(entryCode, authMode) ==
  (IF authMode # "MC_REFRESH" THEN << Request("getAccessToken", entryCode) >> ELSE << >>)
    \o << Request("getXBLToken", IF authMode # "MC_REFRESH" THEN NewMsToken.access_token ELSE entryCode),
          Request("getXSTSToken", "xbl-token"),
          Request("getMCAccessToken", "xsts-token"),
          Request("getMCProfile", NewMcToken.access_token) >>

RECURSIVE RequestsUntil(_, _)
RequestsUntil(requests, failAt) ==
  IF requests = << >> THEN << >>
  ELSE IF Head(requests).request = failAt THEN << Head(requests) >>
  ELSE << Head(requests) >> \o RequestsUntil(Tail(requests), failAt)

\* fullMicrosoftAuthFlow(entryCode, authMode) when the request failAt is answered
\* with an error ("none": every request succeeds) and the XSTS answer carries xuid.
fullMicrosoftAuthFlow(entryCode, authMode, failAt, xuid) ==
  LET awaited == FlowRequests(entryCode, authMode)
  IN  [requests |-> RequestsUntil(awaited, failAt),
       rejected |-> \E k \in DOMAIN awaited : awaited[k].request = failAt,
       accessToken |-> NewMsToken,
       mcToken |-> NewMcToken,
       xuid |-> xuid]

MicrosoftAccount(accessToken, expiresAt, msExpiresAt, xuid) ==
  [uuid |-> "msa-1", accessToken |-> accessToken, expiresAt |-> expiresAt,
   microsoft |-> [access_token |-> "ms-access-old", refresh_token |-> "ms-refresh-old",
                  expires_at |-> msExpiresAt, xuid |-> xuid]]

\* ConfigManager.updateMicrosoftAuthAccount(uuid, accessToken, msAccessToken,
\* msRefreshToken, msExpires, mcExpires, xuid) on the stored account.
updateMicrosoftAuthAccount(current, accessToken, msAccessToken, msRefreshToken, msExpires, mcExpires, xuid) ==
  [uuid |-> current.uuid, accessToken |-> accessToken, expiresAt |-> mcExpires,
   microsoft |-> [access_token |-> msAccessToken, refresh_token |-> msRefreshToken,
                  expires_at |-> msExpires, xuid |-> xuid]]

\* validateSelectedMicrosoftAccount() for the selected account current at time
\* nowMs: the result, the requests made and the account stored afterwards.
validateSelectedMicrosoftAccount(current, nowMs, failAt, xuid) ==
  IF ~Expired(nowMs, current.expiresAt)
  THEN [result |-> TRUE, requests |-> << >>, stored |-> current]
  ELSE IF Expired(nowMs, current.microsoft.expires_at)
  THEN LET res == fullMicrosoftAuthFlow(current.microsoft.refresh_token, "MS_REFRESH", failAt, xuid)
       IN  IF res.rejected
           THEN [result |-> FALSE, requests |-> res.requests, stored |-> current]
           ELSE [result |-> TRUE, requests |-> res.requests,
                 stored |-> updateMicrosoftAuthAccount(current, res.mcToken.access_token,
                              res.accessToken.access_token, res.accessToken.refresh_token,
                              calculateExpiryDate(nowMs, res.accessToken.expires_in),
                              calculateExpiryDate(nowMs, res.mcToken.expires_in), res.xuid)]
  ELSE LET res == fullMicrosoftAuthFlow(current.microsoft.access_token, "MC_REFRESH", failAt, xuid)
       IN  IF res.rejected
           THEN [result |-> FALSE, requests |-> res.requests, stored |-> current]
           ELSE [result |-> TRUE, requests |-> res.requests,
                 stored |-> updateMicrosoftAuthAccount(current, res.mcToken.access_token,
                              current.microsoft.access_token, current.microsoft.refresh_token,
                              current.microsoft.expires_at,
                              calculateExpiryDate(nowMs, res.mcToken.expires_in),
                              IF Falsy(res.xuid) THEN current.microsoft.xuid ELSE res.xuid)]

ExpiryTimes == { 1000, 2000, 3000 }

MicrosoftValidationCalls ==
  { [fn |-> "validateSelectedMicrosoftAccount",
     current |-> MicrosoftAccount("mc-access-old", mc, ms, "2535405290"),
     now |-> n, failAt |-> f, xuid |-> x] :
      mc \in ExpiryTimes, ms \in ExpiryTimes, n \in { 2000, 2500 },
      f \in { "none", "getAccessToken", "getXBLToken", "getXSTSToken", "getMCAccessToken",
              "getMCProfile" },
      x \in { "2535405291", Undefined } }

InitMicrosoftValidationCalls ==
  /\ DefaultInputs /\ Started
  /\ call \in MicrosoftValidationCalls
  /\ ret = Pending

CallValidateSelectedMicrosoftAccount ==
  /\ call.fn = "validateSelectedMicrosoftAccount" /\ ret = Pending
  /\ ret' = Returned(validateSelectedMicrosoftAccount(call.current, call.now, call.failAt, call.xuid))
  /\ UNCHANGED << inputs, launcherVars, buildVars, call >>

InitClasspathCalls ==
  /\ DefaultInputs /\ Started
  /\ call \in ClasspathCalls
  /\ ret = Pending

\* build() up to the mod configuration, then classpathArg(mods, tempNativePath)
\* with the manifest's libraries resolved to call.mojangLibs.
CallClasspathArg ==
  /\ call.fn = "classpathArg" /\ ret = Pending
  /\ LET c == [server |-> ServerOf("fyreth-call", call.minor, FALSE, call.modules, call.modCfg),
               vanillaManifest |-> vanillaManifest]
     IN  ret' = IF resolveModConfiguration(call.modCfg, call.modules).threw THEN Threw
                ELSE Returned(classpathArg(c, call.mojangLibs))
  /\ UNCHANGED << inputs, launcherVars, buildVars, call >>

\* The accounts of a launch that gets to the issue request, and one whose
\* display name is padded with blanks.
IdentityAccounts ==
  { a \in Accounts : ~Falsy(a.uuid) /\ ~Falsy(a.displayName) }
  \cup { Account("mojang", "069a79f444e94726a5befca90e38aaf5", " Steve ", Undefined, "access-B", Undefined) }
IdentityKeys == { "auth_uuid", "auth_player_name", "user_type" }

InitIdentityCalls ==
  /\ host = Host("linux", "x64", TRUE)
  /\ authUser \in IdentityAccounts
  /\ SetProfile(Profile116(Libraries0))
  /\ config = Config(FALSE, FALSE)
  /\ Started
  /\ call \in { [fn |-> "launchIdentity", challenge |-> ch] : ch \in Challenges }
  /\ ret = Pending

\* One launch: the body of the issue request, and what the main pass, the
\* post-pass and _resolveForgeArgs substitute for the placeholders of the
\* account.
CallLaunchIdentity ==
  /\ call.fn = "launchIdentity" /\ ret = Pending
  /\ LET c == Context(<< >>)
     IN  ret' = Returned([issue |-> issueRequestBody(authUser, call.challenge),
                          main |-> [k \in IdentityKeys |-> MainPassValue(k, Ph(k), c)],
                          post |-> [k \in IdentityKeys |-> resolvePlaceholder(k, c)],
                          forge |-> [k \in IdentityKeys |-> ForgeArgValue(k, c)]])
  /\ UNCHANGED << inputs, launcherVars, buildVars, call >>

InitCalls ==
  \/ InitModCalls
  \/ InitClasspathCalls
  \/ InitPassCalls
  \/ InitConstructCalls
  \/ InitFilterCalls
  \/ InitMicrosoftValidationCalls
  \/ InitIdentityCalls
  \/ InitSystemArchitectureCalls
  \/ InitCompareCalls
  \/ InitConstructTwiceCalls
  \/ InitIssueCalls
  \/ InitPlaceholderCalls
  \/ InitLaunchCalls
  \/ InitSafetyNetCalls
  \/ InitAutoConnectCalls
  \/ InitNormalizeCalls

NextCalls ==
  \/ CallIsModEnabled
  \/ CallResolveModConfiguration
  \/ CallClasspathArg
  \/ CallMainPass
  \/ CallConstructJVMArguments113
  \/ CallFilterPass
  \/ CallValidateSelectedMicrosoftAccount
  \/ CallLaunchIdentity
  \/ CallGetSystemArchitecture
  \/ CallCompareArchitecture
  \/ CallConstructTwice
  \/ CallIssueRequest
  \/ CallResolvePlaceholder
  \/ CallLaunchArguments
  \/ CallLibrarySafetyNet
  \/ CallProcessAutoConnectArg
  \/ CallNormalizeArchitecture

SpecCalls == InitCalls /\ [][NextCalls]_vars

\* ------------------------------------------ the main loop, one pass at a time
\* The loop of _constructJVMArguments113 over a template holding a rule object:
\* ret holds the vector and the index between two passes of the body.
Looping(args, i) == [st |-> "looping", args |-> args, i |-> i]

\* Rule objects whose value is a string, a list, a list with a rule object in
\* it, or absent.
LoopObjects ==
  RuleObjects
  \cup { Obj(rules, "list", << Obj(<< >>, "string", << Lit("--width") >>), Lit("854") >>) :
           rules \in RuleLists }
  \cup { Obj(rules, "absent", << >>) : rules \in RuleLists }

InitLoop ==
  /\ host \in { Host(p, "x64", TRUE) : p \in Platforms }
  /\ authUser = CHOOSE a \in Accounts : a.type = "microsoft" /\ a.accessToken # Undefined
  /\ SetProfile(Profile116(Libraries0))
  /\ config \in { Config(fullscreen, FALSE) : fullscreen \in BOOLEAN }
  /\ Started
  /\ call \in { [fn |-> "mainLoop", args |-> << Lit("-Xss1M"), o, Ph("version_name") >>] :
                   o \in LoopObjects }
  /\ ret = Looping(call.args, 1)

\* One pass of the body and the loop's i++.
StepMainLoop ==
  /\ ret.st = "looping" /\ ret.i <= Len(ret.args)
  /\ LET r == MainLoopBody(ret.args, ret.i, Context(<< >>))
     IN  ret' = Looping(r.args, r.i + 1)
  /\ UNCHANGED << inputs, launcherVars, buildVars, call >>

\* i < args.length is false: the loop is left.
LeaveMainLoop ==
  /\ ret.st = "looping" /\ ret.i > Len(ret.args)
  /\ ret' = Returned(ret.args)
  /\ UNCHANGED << inputs, launcherVars, buildVars, call >>

NextLoop == StepMainLoop \/ LeaveMainLoop

\* The loop runs on: a pass that can be taken is taken.
SpecLoop == InitLoop /\ [][NextLoop]_vars /\ WF_vars(NextLoop)

\* ------------------------------------------------- authmanager: validateSelected
\* The last minute of the clock.
MaxClock == 6

\* cacheDuration: 5 * 60 * 1000 ms, in minutes.
cacheDuration == 5

\* The accounts by uuid, one of each type.
AccountIds == { "msa-1", "mojang-1", "ely-1" }
TypeOf(uuid) ==
  CASE uuid = "msa-1" -> "microsoft"
    [] uuid = "ely-1" -> "ely"
    [] OTHER -> "mojang"
Stored(uuid) == uuid \in DOMAIN authDatabase /\ authDatabase[uuid].stored
\* The logins of an account: the first one, and the one after it was removed
\* and added again.
FirstLogin == "first login"
AddedAgain == "added again"

\* What validateSelected calls for the type of the account.
ProviderValidation(type) ==
  CASE type = "microsoft" -> "validateSelectedMicrosoftAccount"
    [] type = "ely" -> "validateSelectedElyAccount"
    [] OTHER -> "validateSelectedMojangAccount"

\* A cache test that takes any recorded result, however old.
CacheFreshForEver(cache, at) == cache.lastValidation > 0 /\ cache.lastResult # NoResult

\* The cache test of validateSelected.
CacheFresh(cache, at) ==
  /\ cache.lastValidation > 0
  /\ at - cache.lastValidation < cacheDuration
  /\ cache.lastResult # NoResult

InitAuth ==
  /\ DefaultInputs /\ BuilderStarted /\ RpcLoaded
  /\ call = NoCall /\ ret = Pending
  /\ now = 1
  /\ authDatabase = [uuid \in AccountIds |-> [stored |-> TRUE, login |-> FirstLogin]]
  /\ selectedAccount \in AccountIds \cup { NoAccount }
  /\ validationCache = [lastValidation |-> 0, lastResult |-> NoResult]
  /\ cachedFor = Login(NoAccount, "")
  /\ validations = << >> /\ validated = NothingValidated

\* A minute passes.
Tick ==
  /\ now < MaxClock
  /\ now' = now + 1
  /\ UNCHANGED << inputs, buildVars, call, ret, rpcVars, selectedAccount, authDatabase,
                  validationCache, cachedFor, validations, validated >>

\* ConfigManager.setSelectedAccount(uuid): the user picks another stored account.
setSelectedAccount(uuid) ==
  /\ Stored(uuid) /\ selectedAccount # uuid
  /\ selectedAccount' = uuid
  /\ UNCHANGED << inputs, buildVars, call, ret, rpcVars, now, authDatabase,
                  validationCache, cachedFor, validations, validated >>

\* remove*Account(uuid): ConfigManager.removeAuthAccount(uuid); when the selected
\* account goes, another stored account or none is the selected one.
removeAccount(uuid, next) ==
  /\ Stored(uuid)
  /\ authDatabase' = [authDatabase EXCEPT ![uuid].stored = FALSE]
  /\ IF selectedAccount = uuid
     THEN /\ next = NoAccount \/ (next # uuid /\ Stored(next))
          /\ selectedAccount' = next
     ELSE /\ next = NoAccount
          /\ UNCHANGED selectedAccount
  /\ UNCHANGED << inputs, buildVars, call, ret, rpcVars, now,
                  validationCache, cachedFor, validations, validated >>

\* add*Account: a login; the account is stored and selected.
addAccount(uuid) ==
  /\ ~Stored(uuid) /\ authDatabase[uuid].login = FirstLogin
  /\ authDatabase' = [authDatabase EXCEPT ![uuid] = [stored |-> TRUE, login |-> AddedAgain]]
  /\ selectedAccount' = uuid
  /\ UNCHANGED << inputs, buildVars, call, ret, rpcVars, now,
                  validationCache, cachedFor, validations, validated >>

\* exports.validateSelected up to its await or its return: without a selected
\* account false, with a fresh cache the cached result, else the validation of
\* the account's type is called and awaited.  The calls that validate are made
\* one after the other: none starts while another awaits its validation.
validateSelected ==
  /\ LET current == IF selectedAccount = NoAccount THEN Login(NoAccount, "")
                    ELSE Login(selectedAccount, authDatabase[selectedAccount].login)
     IN  IF selectedAccount = NoAccount
         THEN /\ validated' = current @@ [result |-> False, by |-> "none", for |-> current]
              /\ UNCHANGED validations
         ELSE IF CacheFresh(validationCache, now)
         THEN /\ validated' = current @@ [result |-> validationCache.lastResult, by |-> "cache",
                                          for |-> cachedFor]
              /\ UNCHANGED validations
         ELSE /\ validations = << >>
              /\ validations' = Append(validations,
                    current @@ [at |-> now, provider |-> ProviderValidation(TypeOf(selectedAccount))])
              /\ UNCHANGED validated
  /\ UNCHANGED << inputs, buildVars, call, ret, rpcVars, now, selectedAccount, authDatabase,
                  validationCache, cachedFor >>

\* The validation awaited by call k settles with result: validateSelected writes
\* the time it read at its start and the result to the cache and returns the
\* result.
ValidationSettles(k, result) ==
  /\ k \in 1..Len(validations)
  /\ LET v == validations[k]
     IN  /\ validationCache' = [lastValidation |-> v.at, lastResult |-> result]
         /\ cachedFor' = Login(v.account, v.login)
         /\ validated' = Login(v.account, v.login)
                           @@ [result |-> result, by |-> v.provider, for |-> Login(v.account, v.login)]
  /\ validations' = SubSeq(validations, 1, k - 1) \o SubSeq(validations, k + 1, Len(validations))
  /\ UNCHANGED << inputs, buildVars, call, ret, rpcVars, now, selectedAccount, authDatabase >>

NextAuth ==
  \/ Tick
  \/ \E uuid \in AccountIds : setSelectedAccount(uuid)
  \/ \E uuid \in AccountIds, next \in AccountIds \cup { NoAccount } : removeAccount(uuid, next)
  \/ \E uuid \in AccountIds : addAccount(uuid)
  \/ validateSelected
  \/ \E k \in 1..Len(validations), result \in { True, False } : ValidationSettles(k, result)

SpecAuth == InitAuth /\ [][NextAuth]_vars

\* ------------------------------------------------------- Discord rich presence
\* The clients initRPC may create.
MaxClients == 2

\* new Client({ transport: 'ipc' }): what the library has done with it so far.
NewClient == [state |-> "connecting", destroy |-> "no"]

\* client.setActivity(activity) as the module calls it, or the return without
\* the call: the client variable, what that client has emitted and whether
\* destroy() was called on it.
ActivityCall(by, called, on, all) ==
  [by |-> by, called |-> called, on |-> on,
   state |-> IF on = NoClient THEN "none" ELSE all[on].state,
   destroy |-> IF on = NoClient THEN "none" ELSE all[on].destroy]

InitRpc ==
  /\ DefaultInputs /\ BuilderStarted /\ AuthLoaded /\ RpcLoaded
  /\ call = NoCall /\ ret = Pending

\* exports.initRPC(genSettings, servSettings, initialDetails).
initRPC ==
  /\ ~isDestroying
  /\ Len(clients) < MaxClients
  /\ clients' = Append(clients, NewClient)
  /\ client' = Len(clients) + 1
  /\ isReady' = FALSE
  /\ activity' = [for |-> Len(clients) + 1, details |-> "waiting"]
  /\ UNCHANGED << inputs, buildVars, call, ret, authVars, isDestroying, activityCalls >>

\* The 'ready' handler registered for client c.
Ready(c) ==
  /\ ~isDestroying
  /\ clients[c].state = "connecting" /\ clients[c].destroy = "no"
  /\ clients' = [clients EXCEPT ![c].state = "ready"]
  /\ isReady' = TRUE
  /\ activityCalls' = << ActivityCall("ready", client # NoClient, client, clients') >>
  /\ UNCHANGED << inputs, buildVars, call, ret, authVars, client, activity, isDestroying >>

\* The 'disconnected' handler registered for client c; while shutdownRPC runs
\* only the client being destroyed can emit it.
Disconnected(c) ==
  /\ clients[c].state \in { "connecting", "ready", "failed" }
  /\ isDestroying => clients[c].destroy = "running"
  /\ clients' = [clients EXCEPT ![c].state = "disconnected"]
  /\ isReady' = FALSE
  /\ IF ~isDestroying
     THEN client' = NoClient /\ activity' = NoActivity
     ELSE UNCHANGED << client, activity >>
  /\ UNCHANGED << inputs, buildVars, call, ret, authVars, isDestroying, activityCalls >>

\* The catch handler of client.login() for client c.
LoginFailed(c) ==
  /\ ~isDestroying
  /\ clients[c].state = "connecting"
  /\ clients' = [clients EXCEPT ![c].state = "failed"]
  /\ isReady' = FALSE
  /\ UNCHANGED << inputs, buildVars, call, ret, authVars, client, activity, isDestroying,
                  activityCalls >>

\* exports.updateDetails(details).
updateDetails(details) ==
  /\ ~isDestroying
  /\ IF client = NoClient \/ ~isReady \/ activity = NoActivity
     THEN /\ activityCalls' = << ActivityCall("updateDetails", FALSE, client, clients) >>
          /\ UNCHANGED activity
     ELSE /\ activity' = [activity EXCEPT !.details = details]
          /\ activityCalls' = << ActivityCall("updateDetails", TRUE, client, clients) >>
  /\ UNCHANGED << inputs, buildVars, call, ret, authVars, client, isReady, isDestroying, clients >>

\* exports.shutdownRPC() up to the call of clientToDestroy.destroy().
shutdownRPC ==
  /\ client # NoClient /\ ~isDestroying
  /\ isDestroying' = TRUE
  /\ isReady' = FALSE
  /\ client' = NoClient
  /\ activity' = NoActivity
  /\ clients' = [clients EXCEPT ![client].destroy = "running"]
  /\ UNCHANGED << inputs, buildVars, call, ret, authVars, activityCalls >>

\* The finally block of shutdownRPC.
shutdownRPCReturns ==
  /\ isDestroying
  /\ isDestroying' = FALSE
  /\ clients' = [c \in DOMAIN clients |->
                   IF clients[c].destroy = "running"
                   THEN [clients[c] EXCEPT !.destroy = "done"] ELSE clients[c]]
  /\ UNCHANGED << inputs, buildVars, call, ret, authVars, client, activity, isReady,
                  activityCalls >>

NextRpc ==
  \/ initRPC
  \/ \E c \in DOMAIN clients : Ready(c)
  \/ \E c \in DOMAIN clients : Disconnected(c)
  \/ \E c \in DOMAIN clients : LoginFailed(c)
  \/ updateDetails("playing")
  \/ shutdownRPC
  \/ shutdownRPCReturns

SpecRpc == InitRpc /\ [][NextRpc]_vars

ModulePaths(mdls) ==
  { << i >> : i \in 1..Len(mdls) }
  \cup UNION { { << i, j >> : j \in 1..Len(mdls[i].subModules) } : i \in 1..Len(mdls) }
  \cup UNION { UNION { { << i, j, k >> : k \in 1..Len(mdls[i].subModules[j].subModules) } :
                         j \in 1..Len(mdls[i].subModules) } : i \in 1..Len(mdls) }
ModuleAt(mdls, p) ==
  IF Len(p) = 1 THEN mdls[p[1]]
  ELSE IF Len(p) = 2 THEN mdls[p[1]].subModules[p[2]]
  ELSE mdls[p[1]].subModules[p[2]].subModules[p[3]]
\* The configuration stored for the module at p, looked up level by level.
StoredAt(modCfg, mdls, p) ==
  LET c1 == CfgOf(modCfg, mdls[p[1]].id)
      c2 == CfgOf(ModsOf(c1), ModuleAt(mdls, SubSeq(p, 1, 2)).id)
  IN  IF Len(p) = 1 THEN c1
      ELSE IF Len(p) = 2 THEN c2
      ELSE CfgOf(ModsOf(c2), ModuleAt(mdls, p).id)
\* Required, or enabled: by the stored configuration, or without one by the
\* declared default.
RequiredOrEnabled(modCfg, mdls, p) ==
  LET m == ModuleAt(mdls, p)
      cfg == StoredAt(modCfg, mdls, p)
  IN  \/ m.required.value = True
      \/ (cfg.k = "bool" /\ cfg.value = True)
      \/ (cfg.k = "obj" /\ cfg.value \in { True, Undefined })
      \/ (cfg.k = "absent" /\ m.required.def = True)
\* The module at p and all its ancestors are mods that are required or enabled.
ActiveMod(modCfg, mdls, p) ==
  \A n \in 1..Len(p) :
    /\ ModuleAt(mdls, SubSeq(p, 1, n)).type \in { "ForgeMod", "LiteMod", "LiteLoader", "FabricMod" }
    /\ RequiredOrEnabled(modCfg, mdls, SubSeq(p, 1, n))
ResolvedMods == { ret.v.fMods[i] : i \in 1..Len(ret.v.fMods) }
                  \cup { ret.v.lMods[i] : i \in 1..Len(ret.v.lMods) }
\* A required top-level mod with an optional sub-module that is disabled and has
\* children, and a required sub-module.
RequiredDisabledRequired ==
  /\ call.mdls[1].required.value = True
  /\ call.mdls[1].subModules[1].required.value = False
  /\ StoredAt(call.modCfg, call.mdls, << 1, 1 >>).value = False
  /\ call.mdls[1].subModules[2].required.value = True

C16_LoaderWithSubModulesLeftOut ==
  /\ call.fn = "resolveModConfiguration" /\ ret.st = "returned"
  /\ call.mdls[1].type = "LiteLoader" /\ call.mdls[1].required.value = True
  /\ call.mdls[1] \notin ResolvedMods
  /\ call.mdls[1].subModules[2] \in ResolvedMods
  /\ call.mdls[2].type = "LiteLoader" /\ ret.v.lMods = << call.mdls[2] >>

\* C17: for a mod without a stored configuration entry the enablement comes from
\* the declared default, and when the mod is enabled or required and has
\* sub-modules these are still resolved: the call returns and does not raise.
C17_NoStoredEntryResolved ==
  (/\ call.fn = "resolveModConfiguration" /\ ret.st # "pending"
   /\ StoredAt(call.modCfg, call.mdls, << 1 >>).k = "absent") =>
     /\ ret.st = "returned"
     /\ call.mdls[1].type # "LiteLoader" => call.mdls[1] \in ResolvedMods
     /\ call.mdls[1].subModules[2].required.value = True =>
          call.mdls[1].subModules[2] \in ResolvedMods


\* The classpath a call returned, and what it was called with.
ReturnedClasspath == call.fn = "classpathArg" /\ ret.st = "returned"
ClasspathEntries == { ret.v[i] : i \in 1..Len(ret.v) }
EntriesAmong(paths) == { i \in 1..Len(ret.v) : ret.v[i] \in paths }
\* Positions of the libraries the server declares for the classpath: the
\* top-level loaders and libraries, and below them the Library sub-modules whose
\* classpath flag is not false.
LibrarySubModules ==
  { q \in ModulePaths(call.modules) :
      /\ Len(q) >= 2
      /\ call.modules[q[1]].type \in { "ForgeHosted", "Fabric", "Library" }
      /\ ModuleAt(call.modules, q).type = "Library" }
ServerDeclared ==
  { q \in ModulePaths(call.modules) :
      Len(q) = 1 /\ call.modules[q[1]].type \in { "ForgeHosted", "Fabric", "Library" } }
  \cup { q \in LibrarySubModules : ModuleAt(call.modules, q).classpath # False }

\* C11: when a manifest library and a server-declared library have the same
\* group:artifact identity, the classpath holds exactly one entry for the
\* identity, the server-declared path.
C11_ServerPathOverridesManifest ==
  ReturnedClasspath =>
    \A i \in 1..Len(call.mojangLibs) : \A q \in ServerDeclared :
      ModuleAt(call.modules, q).id = call.mojangLibs[i][1] =>
        /\ Cardinality(EntriesAmong({ call.mojangLibs[i][2], ModuleAt(call.modules, q).path })) = 1
        /\ ModuleAt(call.modules, q).path \in ClasspathEntries

C11_GuavaOverridden ==
  /\ ReturnedClasspath
  /\ \E i \in 1..Len(call.mojangLibs) : call.mojangLibs[i][1] = "com.google.guava:guava"
  /\ "libraries/com/google/guava/guava/25.1/guava-25.1.jar" \in ClasspathEntries
  /\ "libraries/com/google/guava/guava/21.0/guava-21.0.jar" \notin ClasspathEntries
  /\ "libraries/org/lwjgl/lwjgl/3.2.1/lwjgl-3.2.1.jar" \in ClasspathEntries

\* C12: the libraries declared as sub-modules of an enabled mod are on the
\* classpath, unless their classpath flag is false.
C12_ModLibrariesOnClasspath ==
  ReturnedClasspath =>
    \A q \in ModulePaths(call.modules) :
      (/\ Len(q) = 2
       /\ call.modules[q[1]].type \in { "ForgeMod", "LiteMod", "FabricMod" }
       /\ ActiveMod(call.modCfg, call.modules, << q[1] >>)
       /\ ModuleAt(call.modules, q).type = "Library"
       /\ ModuleAt(call.modules, q).classpath # False) =>
        ModuleAt(call.modules, q).path \in ClasspathEntries

\* The parts of the classpath in the order they are emitted.
VersionJar == "versions/" \o vanillaManifest.id \o ".jar"
FabricActive == \E i \in 1..Len(call.modules) : call.modules[i].type = "Fabric"
LiteLoaderJars ==
  { call.modules[i].path : i \in { j \in 1..Len(call.modules) :
                                     /\ call.modules[j].type = "LiteLoader"
                                     /\ call.modules[j].path # "modstore/liteloader-missing.jar" } }
LibraryPaths ==
  { call.mojangLibs[i][2] : i \in 1..Len(call.mojangLibs) }
  \cup { ModuleAt(call.modules, q).path : q \in ServerDeclared }
\* The version jar first unless omitted, then the LiteLoader jar if active, then
\* library paths only.
ClasspathOrder(omitted) ==
  LET head == IF omitted THEN << >> ELSE << VersionJar >>
      n == Len(head) + Cardinality(LiteLoaderJars)
  IN  /\ Len(ret.v) >= n
      /\ SubSeq(ret.v, 1, Len(head)) = head
      /\ \A j \in LiteLoaderJars : ret.v[n] = j
      /\ \A i \in (n + 1)..Len(ret.v) : ret.v[i] \in LibraryPaths
      /\ \E i \in (n + 1)..Len(ret.v) : TRUE

\* C13 (as stated): the version jar is the first entry, and is omitted when the
\* game version is at least 1.17 or when the Fabric loader is active; the
\* LiteLoader jar, if active, follows, and the library paths come last.
C13_VersionJarOmittedForFabric ==
  ReturnedClasspath => ClasspathOrder(call.minor >= 17 \/ FabricActive)

\* C13 (amended): the version jar is the first entry, and is omitted exactly when
\* the game version is at least 1.17 and the Fabric loader is not active; the
\* LiteLoader jar, if active, follows, and the library paths come last.
C13_VersionJarKeptForFabric ==
  ReturnedClasspath => ClasspathOrder(call.minor >= 17 /\ ~FabricActive)

C13_FabricAt117WithVersionJar ==
  /\ ReturnedClasspath /\ call.minor >= 17 /\ FabricActive
  /\ ret.v[1] = VersionJar
  /\ ret.v[2] = "modstore/liteloader.jar"

C13_ForgeAt117WithoutVersionJar ==
  /\ ReturnedClasspath /\ call.minor >= 17 /\ ~FabricActive
  /\ VersionJar \notin ClasspathEntries

\* C14: a Library sub-module reached by the recursive resolution has its path on
\* the classpath exactly when its classpath flag is true or absent, whatever the
\* flag of the module that holds it.
C14_ClasspathFlagOfTheSubModuleOnly ==
  ReturnedClasspath =>
    \A q \in LibrarySubModules :
      ModuleAt(call.modules, q).path \in ClasspathEntries
        <=> ModuleAt(call.modules, q).classpath \in { True, Undefined }

C14_ExcludedParentIncludedChild ==
  /\ ReturnedClasspath
  /\ call.modules[1].subModules[1].classpath = False
  /\ call.modules[1].subModules[1].path \notin ClasspathEntries
  /\ call.modules[1].subModules[1].subModules[1].classpath = Undefined
  /\ call.modules[1].subModules[1].subModules[1].path \in ClasspathEntries


\* A rule is satisfied: an os rule that allows when the name of the OS matches and
\* the version constraint is absent or matches, an os rule that disallows when
\* the OS does not match in that sense, a features rule when it names the custom
\* resolution.
RuleSatisfied(rule) ==
  LET osMatches == /\ rule.name = getMojangOS(host.platform)
                   /\ rule.version \in { "none", "match" }
  IN  CASE rule.kind = "os" /\ rule.action = "allow" -> osMatches
        [] rule.kind = "os" /\ rule.action = "disallow" -> ~osMatches
        [] OTHER -> rule.hcr
\* The value of the rule object of a main pass call: with fullscreen configured a
\* custom-resolution rule has put '--fullscreen', 'true' in its place.
RuleValue ==
  IF config.fullscreen /\ \E k \in 1..Len(call.args[2].rules) :
                            call.args[2].rules[k] = FeatureRule(TRUE)
  THEN << Lit("--fullscreen"), Lit("true") >>
  ELSE call.args[2].items

\* C18: the main pass replaces a conditional-rule object by its value exactly
\* when every rule of its list is satisfied, a list value spliced in place and a
\* string value in the one slot, and by a null marker otherwise; the entries
\* around it stay.
C18_RuleObjectValueOrNull ==
  (call.fn = "mainPass" /\ ret.st = "returned") =>
    ret.v = IF \A k \in 1..Len(call.args[2].rules) : RuleSatisfied(call.args[2].rules[k])
            THEN << call.args[1] >> \o RuleValue \o << call.args[3] >>
            ELSE << call.args[1], Null, call.args[3] >>

C18_ListSplicedForMatchingVersion ==
  /\ call.fn = "mainPass" /\ ret.st = "returned"
  /\ call.args[2].rules = << OsRule("allow", "linux", "match"), OsRule("disallow", "osx", "none") >>
  /\ ret.v = << Lit("-Xss1M"), Lit("--width"), Lit("854"), Lit("--demo") >>

C18_NullForVersionMismatch ==
  /\ call.fn = "mainPass" /\ ret.st = "returned"
  /\ call.args[2].rules = << OsRule("allow", "linux", "nomatch") >>
  /\ host.platform = "linux"
  /\ ret.v = << Lit("-Xss1M"), Null, Lit("--demo") >>

\* The game arguments of the manifest without the rule objects whose rules are
\* not all satisfied.
WithoutFailingRules ==
  SelectSeq(vanillaManifest.arguments.game,
            LAMBDA e : ~(e.t = "obj" /\ \E k \in 1..Len(e.rules) : ~RuleSatisfied(e.rules[k])))

\* C19: a rule entry whose rules are not all satisfied is absent from the final
\* vector and takes no other entry with it: the vector is the one the same
\* template without that entry gives, no flag before it is removed.
C19_FailingRuleRemovesNothingElse ==
  (call.fn = "constructJVMArguments113" /\ ret.st = "returned") =>
    /\ \A i \in 1..Len(ret.v) : ret.v[i] # Null /\ ret.v[i].t # "obj"
    /\ ret.v = constructJVMArguments113(
                 [Context(<< >>) EXCEPT !.vanillaManifest.arguments.game = WithoutFailingRules],
                 "").args

C19_RuleEntryAbsent ==
  (call.fn = "constructJVMArguments113" /\ ret.st = "returned") =>
    \A i \in 1..Len(ret.v) : ret.v[i] # Null /\ ret.v[i].t # "obj"

C19_FlagBeforeFailingRuleRemoved ==
  /\ call.fn = "constructJVMArguments113" /\ ret.st = "returned"
  /\ vanillaManifest.arguments.game =
       << Lit("854"), Lit("--demo"),
          Obj(<< FeatureRule(FALSE) >>, "list", << Lit("--quickPlayPath"), Lit("quickPlay/log.json") >>) >>
  /\ \E i \in 1..Len(ret.v) : ret.v[i] = Lit("854")
  /\ \A i \in 1..Len(ret.v) : ret.v[i] # Lit("--demo")

\* The entries the filter pass is to remove, and the flags right before them.
NullOrEmpty == { i \in 1..Len(call.args) : call.args[i] = Null \/ IsBlank(call.args[i]) }
FlagsBeforeRemoved ==
  { i \in 1..Len(call.args) : (i + 1) \in NullOrEmpty /\ StartsWithDashDash(call.args[i]) }
\* args without the entries at the positions of drop, in order.
Without(args, drop) ==
  LET kept[i \in 0..Len(args)] ==
        IF i = 0 THEN << >>
        ELSE IF i \in drop THEN kept[i - 1] ELSE Append(kept[i - 1], args[i])
  IN  kept[Len(args)]

\* C20: the filter pass removes every null and every empty string, with each of
\* them the entry right before it when that is a flag beginning with '--', and
\* keeps every other entry in order.
C20_RemovedWithPrecedingFlagOnly ==
  (call.fn = "filterPass" /\ ret.st # "pending") =>
    /\ ret.st = "returned"
    /\ ret.v = Without(call.args, NullOrEmpty \cup FlagsBeforeRemoved)

C20_TypeErrorAfterNumber ==
  /\ call.fn = "filterPass"
  /\ call.args = << Lit("--width"), Num(1280), S(<< >>) >>
  /\ ret.st = "threw"

C20_EarlierFlagRemoved ==
  /\ call.fn = "filterPass"
  /\ call.args = << Lit("--width"), Lit("--demo"), Null, Null >>
  /\ ret.st = "returned" /\ ret.v = << >>

C20_NoNullOrEmptyLeft ==
  (call.fn = "filterPass" /\ ret.st = "returned") =>
    \A i \in 1..Len(ret.v) : ret.v[i] # Null /\ ~IsBlank(ret.v[i])

\* C30: on darwin, linux and win32, for the compact architectures arm64 and x64,
\* normalizing to the manifest form and back gives the architecture again; on
\* win32 x64 is x64 in both directions.
C30_NormalizeRoundTrip ==
  (call.fn = "normalizeArchitecture" /\ ret.st = "returned" /\ call.arch \in Archs) =>
    /\ ret.v.back = call.arch
    /\ (call.platform = "win32" /\ call.arch = "x64") => ret.v.mojang = "x64"

C30_DarwinArm64ThroughAarch64 ==
  /\ call.fn = "normalizeArchitecture" /\ ret.st = "returned"
  /\ call.platform = "darwin" /\ call.arch = "arm64"
  /\ ret.v = [mojang |-> "aarch64", back |-> "arm64"]

\* C23: auto-connect arguments are appended exactly when auto-connect is
\* configured and the server declares it: '--quickPlayMultiplayer host:port' from
\* 1.20 on, '--server host --port port' below; otherwise the list is unchanged.
C23_AutoConnectArgs ==
  (call.fn = "processAutoConnectArg" /\ ret.st = "returned") =>
    ret.v = call.args \o
      (IF config.autoConnect /\ server.autoconnect
       THEN IF server.minecraftVersion >= 20
            THEN << Lit("--quickPlayMultiplayer"),
                    S(<< L("play.fyreth.example"), L(":"), L("25565") >>) >>
            ELSE << Lit("--server"), Lit("play.fyreth.example"), Lit("--port"), Num(25565) >>
       ELSE << >>)

C23_QuickPlayAt120 ==
  /\ call.fn = "processAutoConnectArg" /\ ret.st = "returned"
  /\ server.minecraftVersion = 20 /\ call.args = << Lit("--demo") >>
  /\ ret.v = << Lit("--demo"), Lit("--quickPlayMultiplayer"),
                S(<< L("play.fyreth.example"), L(":"), L("25565") >>) >>

\* Positions in a vector: the first entry that is e, the first entry that sets
\* the option, the first token that does not start with '-' (0: none).
FirstOf(args, e) == FindIndex({ i \in 1..Len(args) : args[i] = e })
FirstSetting(args, option) == FindIndex({ i \in 1..Len(args) : StartsWith(args[i], option) })
FirstPlainToken(args) ==
  FindIndex({ i \in 1..Len(args) : IsStr(args[i]) /\ ~StartsWithDash(args[i]) })
SafetyNetReturned == call.fn = "librarySafetyNet" /\ ret.st = "returned"
\* Where the claims put an entry: before -cp, else before the first token
\* without a dash, else at the end.
SafeInsertionPoint(args) ==
  IF FirstOf(args, Lit("-cp")) > 0 THEN FirstOf(args, Lit("-cp"))
  ELSE IF FirstPlainToken(args) > 0 THEN FirstPlainToken(args)
  ELSE Len(args) + 1

\* C24: when no entry sets -Djava.library.path exactly one is inserted: on macOS
\* right after -XstartOnFirstThread when that is present, else right before -cp
\* when the vector holds -cp, else right before the first token without a dash,
\* else at the end; never between -cp and its value.
C24_LibraryPathAtSafePoint ==
  (SafetyNetReturned /\ FirstSetting(call.args, "-Djava.library.path=") = 0) =>
    LET xstart == FirstOf(call.args, Lit("-XstartOnFirstThread"))
        at == IF host.platform = "darwin" /\ xstart > 0 THEN xstart + 1
              ELSE SafeInsertionPoint(call.args)
    IN  /\ ret.v.libraryPath = InsertAt(call.args, at, LibraryPathArg(Context(<< >>)))
        /\ \A i \in 2..Len(ret.v.libraryPath) :
             StartsWith(ret.v.libraryPath[i], "-Djava.library.path=")
               => ret.v.libraryPath[i - 1] # Lit("-cp")

C24_InsertedBehindLeadingCp ==
  /\ SafetyNetReturned /\ host.platform = "linux"
  /\ call.args = << Lit("-cp"), Lit("libraries/a.jar"), Lit("-Xss1M") >>
  /\ ret.v.libraryPath = << Lit("-cp"), LibraryPathArg(Context(<< >>)), Lit("libraries/a.jar"),
                            Lit("-Xss1M") >>

\* C25 (as stated): on macOS, when no entry sets -Dorg.lwjgl.librarypath, one is
\* inserted right after -XstartOnFirstThread if present, else right after the
\* -Djava.library.path entry, else at the safe insertion point.
C25_LwjglPathAfterXstartFirst ==
  (/\ SafetyNetReturned /\ host.platform = "darwin"
   /\ FirstSetting(call.args, "-Dorg.lwjgl.librarypath=") = 0) =>
    LET args == ret.v.libraryPath
        xstart == FirstOf(args, Lit("-XstartOnFirstThread"))
        libraryPath == FirstSetting(args, "-Djava.library.path=")
        at == IF xstart > 0 THEN xstart + 1
              ELSE IF libraryPath > 0 THEN libraryPath + 1
              ELSE SafeInsertionPoint(args)
    IN  ret.v.args = InsertAt(args, at, LwjglPathArg(Context(<< >>)))

\* C25 (amended): on macOS, when no entry sets -Dorg.lwjgl.librarypath, one is
\* inserted right after the first -Djava.library.path entry, which the step
\* before has ensured, wherever -XstartOnFirstThread is; on other platforms and
\* when an entry sets it the vector stays as it is.
C25_LwjglPathAfterLibraryPath ==
  SafetyNetReturned =>
    LET args == ret.v.libraryPath
        libraryPath == FirstSetting(args, "-Djava.library.path=")
    IN  /\ libraryPath > 0
        /\ ret.v.args =
             IF host.platform = "darwin" /\ FirstSetting(call.args, "-Dorg.lwjgl.librarypath=") = 0
             THEN InsertAt(args, libraryPath + 1, LwjglPathArg(Context(<< >>)))
             ELSE args

C25_LibraryPathBetweenXstartAndLwjgl ==
  /\ SafetyNetReturned /\ host.platform = "darwin"
  /\ call.args = << Lit("-XstartOnFirstThread"), S(<< L("-Djava.library.path="), L("natives") >>),
                    Lit("-cp"), Lit("libraries/a.jar") >>
  /\ ret.v.args = << Lit("-XstartOnFirstThread"), S(<< L("-Djava.library.path="), L("natives") >>),
                     LwjglPathArg(Context(<< >>)), Lit("-cp"), Lit("libraries/a.jar") >>

\* The entry holds the text somewhere.
Holds(e, text) == IsStr(e) /\ \E k \in 1..Len(e.s) : e.s[k].k = "lit" /\ e.s[k].v = text
LaunchArgumentsReturned == call.fn = "launchArguments" /\ ret.st = "returned"

\* C26: no entry of the logged argument list holds the access token of the
\* account or the join token, whatever the template and the account, and the
\* list for spawn is the constructed one.
C26_NoTokenInLoggedArgs ==
  LaunchArgumentsReturned =>
    /\ \A i \in 1..Len(ret.v.loggableArgs) :
         /\ ~Holds(ret.v.loggableArgs[i], call.joinToken)
         /\ authUser.accessToken # Undefined
              => ~Holds(ret.v.loggableArgs[i], authUser.accessToken)
    /\ ret.v.args = BuildArgs(Context(<< >>), call.joinToken).args

C26_JoinTokenAndSingleAccessTokenStarred ==
  LaunchArgumentsReturned =>
    /\ \A i \in 1..Len(ret.v.loggableArgs) : ~Holds(ret.v.loggableArgs[i], call.joinToken)
    /\ \E i \in 1..Len(ret.v.args) : Holds(ret.v.args[i], call.joinToken)
    /\ vanillaManifest.arguments.game[1] = Lit("--username") =>
         \A i \in 1..Len(ret.v.loggableArgs) :
           authUser.accessToken # Undefined
             => ~Holds(ret.v.loggableArgs[i], authUser.accessToken)

C26_SecondAccessTokenLogged ==
  /\ LaunchArgumentsReturned
  /\ authUser.accessToken = "access-A"
  /\ vanillaManifest.arguments.game[3] = Lit("--session")
  /\ \E i, j \in 1..Len(ret.v.loggableArgs) :
       /\ i + 2 = j
       /\ ret.v.loggableArgs[i] = Lit("**********")
       /\ ret.v.loggableArgs[j] = Lit("access-A")

C26_AccessTokenInSessionLogged ==
  /\ LaunchArgumentsReturned
  /\ authUser.accessToken = "access-A"
  /\ \E i \in 1..Len(ret.v.loggableArgs) :
       /\ Holds(ret.v.loggableArgs[i], "token:")
       /\ Holds(ret.v.loggableArgs[i], "access-A")

C22_SameValueInBothPasses ==
  (call.fn = "resolvePlaceholder" /\ ret.st = "returned") => ret.v.post = ret.v.main

C22_SameValueForAccountFields ==
  (/\ call.fn = "resolvePlaceholder" /\ ret.st = "returned"
   /\ call.key \in { "auth_uuid", "auth_access_token", "user_type", "clientid", "auth_xuid" })
    => ret.v.post = ret.v.main

C22_PlayerNameFromUsername ==
  /\ call.fn = "resolvePlaceholder" /\ ret.st = "returned"
  /\ call.key = "auth_player_name"
  /\ ret.v.main = Lit("Alex") /\ ret.v.post = Lit("alex@example.org")

C22_VersionNameUnknownToPostPass ==
  /\ call.fn = "resolvePlaceholder" /\ ret.st = "returned"
  /\ call.key = "version_name"
  /\ ret.v.main = Lit("fyreth-1.16.5") /\ ret.v.post = Null

\* C28: a launch for an account whose uuid or display name is missing or
\* empty is rejected with an error, and no request to the join-token service
\* and no process spawn ever happens in that launch.
IncompleteAccount ==
  \/ authUser.uuid \in {"", Undefined}
  \/ authUser.displayName \in {"", Undefined}

C28_IncompleteAccountRejected ==
  IncompleteAccount =>
    /\ pc \in {"init", "rejected"}
    /\ pc = "rejected" => buildError = Thrown("incomplete_auth_user")
    /\ handshakeRequests = 0 /\ issueRequests = 0 /\ spawns = 0
    /\ exchange = << >>

\* A launch rejected for an account without a display name.
C28_RejectedWithoutDisplayName ==
  /\ pc = "rejected" /\ buildError = Thrown("incomplete_auth_user")
  /\ authUser.displayName = "" /\ authUser.uuid # ""
  /\ handshakeRequests = 0 /\ spawns = 0

\* A launch rejected for an account without a uuid.
C28_RejectedWithoutUuid ==
  /\ pc = "rejected" /\ buildError = Thrown("incomplete_auth_user")
  /\ authUser.uuid = "" /\ authUser.displayName # ""
  /\ handshakeRequests = 0 /\ spawns = 0

\* C29: the issue request body always carries challenge, dashed uuid, name and
\* userType; it carries xuid and accessToken only for a Microsoft account, each
\* only when the account has it; the access token of a Mojang or Ely account is
\* never in the body.
IssueRequestSent == call.fn = "issueRequest" /\ ret.st = "returned"

C29_IssueRequestBody ==
  IssueRequestSent =>
    /\ {"challenge", "uuid", "name", "userType"} \subseteq DOMAIN ret.v
    /\ DOMAIN ret.v \subseteq {"challenge", "uuid", "name", "userType", "xuid", "accessToken"}
    /\ ret.v["challenge"] = call.challenge
    /\ ret.v["uuid"] = "069a79f4-44e9-4726-a5be-fca90e38aaf5"
    /\ ret.v["name"] = authUser.displayName
    /\ ret.v["userType"] = (CASE authUser.type = "microsoft" -> "msa"
                              [] authUser.type = "ely" -> "ely"
                              [] OTHER -> "mojang")
    /\ "xuid" \in DOMAIN ret.v <=>
          (authUser.type = "microsoft" /\ authUser.xuid \notin {"", Undefined})
    /\ "xuid" \in DOMAIN ret.v => ret.v["xuid"] = authUser.xuid
    /\ "accessToken" \in DOMAIN ret.v <=>
          (authUser.type = "microsoft" /\ authUser.accessToken \notin {"", Undefined})
    /\ "accessToken" \in DOMAIN ret.v => ret.v["accessToken"] = authUser.accessToken
    /\ \A k \in DOMAIN ret.v :
          authUser.type # "microsoft" /\ authUser.accessToken # Undefined
            => ret.v[k] # authUser.accessToken

\* The request of a Mojang account that has an access token, sent without it.
C29_MojangTokenNotSent ==
  /\ IssueRequestSent
  /\ authUser.type = "mojang" /\ authUser.accessToken = "access-B"
  /\ DOMAIN ret.v = {"challenge", "uuid", "name", "userType"}

\* The request of a Microsoft account carrying both its xuid and its token.
C29_MicrosoftTokenSent ==
  /\ IssueRequestSent
  /\ authUser.type = "microsoft"
  /\ {"xuid", "accessToken"} \subseteq DOMAIN ret.v

\* C27: constructing the argument vector leaves the vanilla manifest object as
\* it was, and a second construction from the same manifest objects, account and
\* configuration gives the same vector as the first.
ConstructedTwice == call.fn = "constructTwice" /\ ret.st = "returned"

C27_ManifestReadOnly ==
  ConstructedTwice =>
    /\ ret.v.vanillaManifest = vanillaManifest
    /\ ret.v.second = ret.v.first

\* The second vector is longer than the first: it has -Xmx and -Xms twice.
C27_SecondVectorLonger ==
  /\ ConstructedTwice
  /\ Len(ret.v.second) > Len(ret.v.first)
  /\ Len(ret.v.vanillaManifest.arguments.jvm) > Len(vanillaManifest.arguments.jvm)

\* The rule objects are left as they were when fullscreen is not configured;
\* the list of JVM arguments has grown all the same.
C27_RuleObjectsKeptWithoutFullscreen ==
  (ConstructedTwice /\ ~config.fullscreen) =>
    /\ ret.v.vanillaManifest.arguments.game = vanillaManifest.arguments.game
    /\ SubSeq(ret.v.vanillaManifest.arguments.jvm, 1, Len(vanillaManifest.arguments.jvm))
         = vanillaManifest.arguments.jvm

\* C31: compareArchitecture(a, b, p) is true exactly when a and b are of the
\* same family, {arm64, aarch64} or {x64, x86_64}, on every platform, and it
\* gives the same answer with a and b exchanged.
ArmFamily == { "arm64", "aarch64" }
IntelFamily == { "x64", "x86_64" }
CompareReturned == call.fn = "compareArchitecture" /\ ret.st = "returned"

C31_CompareArchitectureByFamily ==
  CompareReturned =>
    /\ ret.v.forth = ret.v.back
    /\ (call.arch1 \in ArmFamily \cup IntelFamily /\ call.arch2 \in ArmFamily \cup IntelFamily) =>
         (ret.v.forth <=> \/ (call.arch1 \in ArmFamily /\ call.arch2 \in ArmFamily)
                          \/ (call.arch1 \in IntelFamily /\ call.arch2 \in IntelFamily))
    /\ (call.arch1 = "x86_64" /\ call.arch2 = "arm64" /\ call.platform = "darwin") => ~ret.v.forth
    /\ (call.arch1 = "x86_64" /\ call.arch2 = "x64" /\ call.platform = "linux") => ret.v.forth

\* compareArchitecture('aarch64', 'arm64', 'darwin') has returned true.
C31_Aarch64IsArm64OnDarwin ==
  /\ CompareReturned
  /\ call.arch1 = "aarch64" /\ call.arch2 = "arm64" /\ call.platform = "darwin"
  /\ ret.v.forth /\ ret.v.back

\* C32: on macOS getSystemArchitecture returns arm64 whenever the translation
\* probe reports translated execution; otherwise the answer of the arch probe
\* whenever that is a recognised architecture; only otherwise the fallback
\* (uname -m, then the runtime) decides; for every combination of answers and
\* failures.  On other platforms the runtime's architecture is returned.
SystemArchitectureReturned == call.fn = "getSystemArchitecture" /\ ret.st = "returned"

C32_ProbePriority ==
  SystemArchitectureReturned =>
    IF call.platform # "darwin" THEN ret.v = call.osArch
    ELSE IF call.procTranslated = "1" THEN ret.v = "arm64"
    ELSE IF call.archResult = "arm64" THEN ret.v = "arm64"
    ELSE IF call.archResult \in { "i386", "x86_64" } THEN ret.v = "x64"
    ELSE ret.v \in { call.osArch } \cup
           (IF call.unameResult = "arm64" THEN { "arm64" }
            ELSE IF call.unameResult = "x86_64" THEN { "x64" } ELSE {})

\* The priority among the probes when none of the three commands fails.
C32_ProbePriorityWithoutFailures ==
  (/\ SystemArchitectureReturned
   /\ ExecFails \notin { call.procTranslated, call.archResult, call.unameResult }) =>
    IF call.platform # "darwin" THEN ret.v = call.osArch
    ELSE IF call.procTranslated = "1" THEN ret.v = "arm64"
    ELSE IF call.archResult = "arm64" THEN ret.v = "arm64"
    ELSE IF call.archResult \in { "i386", "x86_64" } THEN ret.v = "x64"
    ELSE IF call.unameResult = "arm64" THEN ret.v = "arm64"
    ELSE IF call.unameResult = "x86_64" THEN ret.v = "x64"
    ELSE ret.v = call.osArch

\* The arch probe answers arm64, the translation probe fails, and the runtime's
\* x64 is returned.
C32_RuntimeOverArchProbe ==
  /\ SystemArchitectureReturned
  /\ call.platform = "darwin" /\ call.procTranslated = ExecFails
  /\ call.archResult = "arm64" /\ call.osArch = "x64" /\ ret.v = "x64"

\* C33: for every finite argument template, whatever the value field of its
\* rule objects, present or absent, the main loop of _constructJVMArguments113
\* terminates.
C33_MainLoopTerminates == <>(ret.st = "returned")

\* An index rewind only follows a replacement of the entry at that index: no
\* pass of the body leaves the vector and the index as they were.
C33_RewindOnlyAfterReplacement ==
  (ret.st = "looping" /\ ret.i <= Len(ret.args) /\ ret.args[ret.i].t = "obj") =>
    LET r == MainLoopBody(ret.args, ret.i, Context(<< >>))
    IN  ~(r.args = ret.args /\ r.i + 1 = ret.i)

\* The loop stands on a rule object that passes its rules and has no value: the
\* pass leaves it in place and rewinds the index.
C33_SpinningOnObjectWithoutValue ==
  /\ ret.st = "looping" /\ ret.i <= Len(ret.args)
  /\ ret.args[ret.i].t = "obj" /\ ret.args[ret.i].vt = "absent"
  /\ MainLoopBody(ret.args, ret.i, Context(<< >>)) = [args |-> ret.args, i |-> ret.i - 1]

\* With a string or a list for the value of every rule object the loop
\* terminates.
C33_TerminatesWithStringOrListValues ==
  (call.args[2].vt \in { "string", "list" }) ~> (ret.st = "returned")

\* C34: every launch attempt that creates the scratch native directory
\* eventually attempts to delete it, also when the attempt fails after the
\* directory was created and before the child was spawned.
\* build() has ended, or the launch has: no step of build() or of the child's
\* handlers is left to take.
LaunchEnded == pc \in { "rejected", "looping", "done" }

C34_ScratchRemovalAttempted ==
  (LaunchEnded /\ tempDir # "absent") => removeAttempts > 0

\* A launch that spawned the child has attempted the removal when it has ended.
C34_RemovalAttemptedAfterSpawn ==
  (LaunchEnded /\ spawns > 0) => removeAttempts > 0

\* build() rejected for an archive that cannot be read: the directory is there,
\* no child was spawned, no removal was attempted.
C34_ScratchLeftAfterArchiveFailure ==
  /\ pc = "rejected" /\ buildError = Thrown("archive_read")
  /\ tempDir = "present" /\ spawns = 0 /\ removeAttempts = 0

\* C35: for every account, the uuid, name and user type of the issue request
\* are the values substituted for auth_uuid, auth_player_name and user_type in
\* the game arguments of the same launch, by the main pass, the post-pass and
\* the pre-1.13 path alike.
IdentityReturned == call.fn = "launchIdentity" /\ ret.st = "returned"
SameInEveryPass(key, text) ==
  /\ ret.v.main[key] = StrOf(text)
  /\ ret.v.post[key] = StrOf(text)
  /\ ret.v.forge[key] = StrOf(text)

C35_IssuedIdentityIsLaunchedIdentity ==
  IdentityReturned =>
    /\ SameInEveryPass("auth_uuid", ret.v.issue["uuid"])
    /\ SameInEveryPass("auth_player_name", ret.v.issue["name"])
    /\ SameInEveryPass("user_type", ret.v.issue["userType"])

\* The uuid and the user type of the request are those of the arguments.
C35_IssuedUuidAndUserTypeLaunched ==
  IdentityReturned =>
    /\ SameInEveryPass("auth_uuid", ret.v.issue["uuid"])
    /\ SameInEveryPass("user_type", ret.v.issue["userType"])

\* The request names the display name, the post-pass the username.
C35_UsernameLaunchedDisplayNameIssued ==
  /\ IdentityReturned
  /\ ret.v.issue["name"] = "Alex" /\ ret.v.main["auth_player_name"] = Lit("Alex")
  /\ ret.v.post["auth_player_name"] = Lit("alex@example.org")

\* The request carries the padded name, the main pass the trimmed one.
C35_PaddedNameIssuedTrimmedLaunched ==
  /\ IdentityReturned
  /\ ret.v.issue["name"] = " Steve " /\ ret.v.main["auth_player_name"] = Lit("Steve")
  /\ ret.v.forge["auth_player_name"] = Lit("Steve")

\* C36: validateSelected returns the result computed before, calling no
\* identity provider, whenever an account is selected and a validation was
\* recorded less than 5 minutes earlier; otherwise, an account being selected,
\* it calls exactly one validation, that of the account's type, and records its
\* result and the time of the call.
RecordedLately ==
  /\ validationCache.lastValidation > 0 /\ validationCache.lastResult # NoResult
  /\ now - validationCache.lastValidation < 5
SelectedLogin ==
  IF selectedAccount = NoAccount THEN Login(NoAccount, "")
  ELSE Login(selectedAccount, authDatabase[selectedAccount].login)
ValidationOfType ==
  CASE selectedAccount = "msa-1" -> "validateSelectedMicrosoftAccount"
    [] selectedAccount = "ely-1" -> "validateSelectedElyAccount"
    [] OTHER -> "validateSelectedMojangAccount"
\* A call that returns at once, a call that starts a validation, a validation
\* that settles.
ReturnedAtOnce == validations' = validations /\ validated' # validated
ValidationCalled == Len(validations') > Len(validations)
ValidationSettled == Len(validations') < Len(validations)

\* What a call that returns at once has returned.
ReturnedCachedOrFalse ==
  /\ validationCache' = validationCache
  /\ IF selectedAccount = NoAccount
     THEN validated'.result = False /\ validated'.by = "none"
     ELSE /\ RecordedLately
          /\ validated'.result = validationCache.lastResult /\ validated'.by = "cache"
\* The one validation a call has started.
OneValidationOfTheType ==
  /\ selectedAccount # NoAccount /\ ~RecordedLately
  /\ validations' = Append(validations, SelectedLogin @@ [at |-> now, provider |-> ValidationOfType])
  /\ validationCache' = validationCache /\ validated' = validated
\* The result and the time of the call are recorded, the result is returned.
ResultAndTimeRecorded ==
  \E k \in 1..Len(validations) :
    /\ validated'.by = validations[k].provider
    /\ validated'.account = validations[k].account
    /\ validationCache' = [lastValidation |-> validations[k].at, lastResult |-> validated'.result]

C36_CachedWithinFiveMinutes ==
  [][ /\ (ReturnedAtOnce => ReturnedCachedOrFalse)
      /\ (ValidationCalled => OneValidationOfTheType)
      /\ (ValidationSettled => ResultAndTimeRecorded)
      /\ (validationCache' # validationCache => ValidationSettled) ]_vars

\* A call has returned the cached result for the selected account.
C36_ReturnedFromCache ==
  /\ validated.by = "cache" /\ validated.account = selectedAccount
  /\ validated.result = validationCache.lastResult
  /\ now > validationCache.lastValidation /\ validations = << >>

\* C37: what validateSelected returns is the result of a validation of the
\* account selected at the call, in its present login: never one computed for
\* another account, or for the account before it was removed and added again.
C37_ResultOfTheSelectedAccount ==
  validated.account # NoAccount => validated.for = Login(validated.account, validated.login)

\* The result computed for one account is returned for another.
C37_CachedResultOfAnotherAccount ==
  /\ validated.by = "cache" /\ validated.account = "mojang-1"
  /\ validated.for.account = "msa-1" /\ validated.result = True

\* The result computed before the account was removed is returned after it was
\* added again.
C37_CachedResultOfAnEarlierLogin ==
  /\ validated.by = "cache" /\ validated.account = validated.for.account
  /\ validated.login = AddedAgain /\ validated.for.login = FirstLogin

\* A result that does not come from the cache is that of the selected account.
C37_ValidatedResultOfTheSelectedAccount ==
  (validated.account # NoAccount /\ validated.by # "cache") =>
    validated.for = Login(validated.account, validated.login)

MicrosoftValidated == call.fn = "validateSelectedMicrosoftAccount" /\ ret.st = "returned"

RequestNames(requests) == { requests[k].request : k \in DOMAIN requests }

SameMicrosoftTokens(a, b) ==
  /\ a.microsoft.access_token = b.microsoft.access_token
  /\ a.microsoft.refresh_token = b.microsoft.refresh_token
  /\ a.microsoft.expires_at = b.microsoft.expires_at

\* C38: validateSelectedMicrosoftAccount chooses its action from the two expiry
\* times alone.  Game token unexpired: true, no request, no account update.
\* Game token expired and Microsoft token unexpired: only the game token is
\* refreshed (no getAccessToken request; the stored Microsoft token is what is
\* sent) and stored, while the stored Microsoft access token, refresh token and
\* Microsoft expiry stay as they were.  Both expired: full refresh starting from
\* the stored refresh token.  A failed refresh returns false and leaves the
\* stored account unchanged.
C38_ActionFromExpiryAlone ==
  MicrosoftValidated =>
    LET current == call.current
        r == ret.v
        mcExpired == call.now >= current.expiresAt
        msExpired == call.now >= current.microsoft.expires_at
    IN  /\ ~mcExpired => (r.result /\ r.requests = << >> /\ r.stored = current)
        /\ (mcExpired /\ ~msExpired) =>
             /\ Head(r.requests) = Request("getXBLToken", current.microsoft.access_token)
             /\ "getAccessToken" \notin RequestNames(r.requests)
             /\ SameMicrosoftTokens(r.stored, current)
             /\ r.result <=> call.failAt \notin RequestNames(r.requests)
             /\ r.result =>
                  /\ r.stored.accessToken = "mc-access-new"
                  /\ r.stored.expiresAt = calculateExpiryDate(call.now, NewMcToken.expires_in)
        /\ (mcExpired /\ msExpired) =>
             /\ Head(r.requests) = Request("getAccessToken", current.microsoft.refresh_token)
             /\ r.result <=> call.failAt \notin RequestNames(r.requests)
             /\ r.result =>
                  /\ r.stored.accessToken = "mc-access-new"
                  /\ r.stored.expiresAt = calculateExpiryDate(call.now, NewMcToken.expires_in)
                  /\ r.stored.microsoft.access_token = "ms-access-new"
                  /\ r.stored.microsoft.refresh_token = "ms-refresh-new"
                  /\ r.stored.microsoft.expires_at = calculateExpiryDate(call.now, NewMsToken.expires_in)
        /\ ~r.result => r.stored = current

\* The game token expired exactly now, the Microsoft token has not, and the
\* refresh of the game token succeeded and was stored.
C38_GameTokenRefreshedAtExpiry ==
  /\ MicrosoftValidated
  /\ call.now = call.current.expiresAt
  /\ call.now < call.current.microsoft.expires_at
  /\ ret.v.result
  /\ ret.v.stored.accessToken = "mc-access-new"
  /\ SameMicrosoftTokens(ret.v.stored, call.current)

\* Both tokens expired and the full refresh failed at the Minecraft token
\* request: false is returned and the stored account is as before.
C38_FullRefreshFailed ==
  /\ MicrosoftValidated
  /\ call.now >= call.current.expiresAt
  /\ call.now >= call.current.microsoft.expires_at
  /\ call.failAt = "getMCAccessToken"
  /\ ~ret.v.result
  /\ Len(ret.v.requests) = 4
  /\ ret.v.stored = call.current

UpdateDetailsCalled ==
  \E k \in DOMAIN activityCalls :
    activityCalls[k].by = "updateDetails" /\ activityCalls[k].called

\* C39: after any interleaving of initRPC, shutdownRPC, updateDetails and the
\* ready, disconnected and login-failure callbacks of the clients, updateDetails
\* calls setActivity only on the current client and only if that client itself
\* has emitted ready and has not since disconnected or been shut down.
C39_SetActivityOnlyOnReadyClient ==
  \A k \in DOMAIN activityCalls :
    (activityCalls[k].by = "updateDetails" /\ activityCalls[k].called) =>
      /\ activityCalls[k].on # NoClient
      /\ activityCalls[k].state = "ready"
      /\ activityCalls[k].destroy = "no"

\* updateDetails has called setActivity on a client that is still connecting.
C39_SetActivityOnConnectingClient ==
  \E k \in DOMAIN activityCalls :
    /\ activityCalls[k].by = "updateDetails" /\ activityCalls[k].called
    /\ activityCalls[k].state = "connecting"

\* updateDetails never calls setActivity on a client that disconnected or was
\* shut down, and never without a client.
C39_NeverOnClosedClient ==
  \A k \in DOMAIN activityCalls :
    (activityCalls[k].by = "updateDetails" /\ activityCalls[k].called) =>
      /\ activityCalls[k].on # NoClient
      /\ activityCalls[k].state # "disconnected"
      /\ activityCalls[k].destroy = "no"

\* updateDetails has called setActivity on a client that has emitted ready.
C39_SetActivityOnReadyClient ==
  \E k \in DOMAIN activityCalls :
    /\ activityCalls[k].by = "updateDetails" /\ activityCalls[k].called
    /\ activityCalls[k].state = "ready"

\* Client c emits disconnected in this step while another client is current.
LateDisconnected(c) ==
  /\ client # NoClient /\ c # client
  /\ clients[c].state # "disconnected"
  /\ clients'[c].state = "disconnected"

\* C40: a disconnected callback of a client already shut down or replaced never
\* changes the state held for a newer client: the client and activity
\* references stay as they were.
C40_LateDisconnectKeepsNewClient ==
  [][ \A c \in DOMAIN clients :
        LateDisconnected(c) => (client' = client /\ activity' = activity) ]_vars

\* The disconnected callback that runs inside shutdownRPC leaves the references
\* as shutdownRPC set them.
C40_DisconnectedWhileDestroying ==
  [][ (isDestroying /\ isDestroying') => (client' = client /\ activity' = activity) ]_vars

\* After shutdownRPC and initRPC the client shut down has emitted disconnected
\* and the module holds no client and no activity.
C40_NewClientLostByLateDisconnect ==
  /\ Len(clients) = 2
  /\ clients[1].destroy = "done" /\ clients[1].state = "disconnected"
  /\ clients[2].state = "connecting" /\ clients[2].destroy = "no"
  /\ client = NoClient /\ activity = NoActivity

\* ---------------------------------------------------- join-token acquisition
FailureResponses == { "network_error", "timeout", "bad_status", "no_challenge", "no_join_token" }
TokenFailures == { i \in 1..Len(exchange) :
                     exchange[i].kind = "response" /\ exchange[i].res \in FailureResponses }

\* C1: when the acquisition of the join token fails at any step (network error,
\* timeout, non-success status, response without challenge or without
\* join_token), build() is rejected with an error that wraps the cause, and no
\* child process is ever spawned.
C1_TokenFailureRejectsBuild ==
  \A i \in TokenFailures :
    /\ pc = "rejected"
    /\ buildError = [cause |-> exchange[i].res, wrapped |-> TRUE]
    /\ spawns = 0 /\ spawnArgs = << >>

C1_IssueFailed ==
  /\ pc = "rejected"
  /\ exchange # << >>
  /\ exchange[Len(exchange)] = Received("issue", "no_join_token")
  /\ buildError.wrapped

\* C2: one build() sends at most one handshake request and at most one issue
\* request; the issue request directly follows a handshake response that carried
\* a challenge; and nothing is sent after a failed response (no retry).
C2_OneHandshakeOneIssue ==
  /\ handshakeRequests <= 1 /\ issueRequests <= 1
  /\ Cardinality({ i \in 1..Len(exchange) : exchange[i] = Sent("handshake") }) = handshakeRequests
  /\ Cardinality({ i \in 1..Len(exchange) : exchange[i] = Sent("issue") }) = issueRequests
  /\ \A i \in 1..Len(exchange) :
       exchange[i] = Sent("issue") => i > 1 /\ exchange[i-1] = Received("handshake", "ok")
  /\ \A i \in TokenFailures : i = Len(exchange)

C2_IssueSentThenFailed ==
  /\ issueRequests = 1 /\ handshakeRequests = 1
  /\ Len(exchange) = 4
  /\ exchange[4] = Received("issue", "timeout")

\* ------------------------------------------------------ the argument vector
\* C3: the vector of every spawned child holds exactly one entry
\* -Dfyreth.join_token=<t>, t being the token the issue response of this build
\* carried, and the entry stands before the main class, on the 1.13+ path and on
\* the pre-1.13 path.
C3_OneJoinTokenEntry ==
  spawns > 0 =>
    LET tokenEntries == { i \in 1..Len(spawnArgs) :
                            /\ IsStr(spawnArgs[i]) /\ spawnArgs[i].s # << >>
                            /\ spawnArgs[i].s[1] = L("-Dfyreth.join_token=") }
        mainClasses == { i \in 1..Len(spawnArgs) : spawnArgs[i] = Lit(modManifest.mainClass) }
    IN  /\ Cardinality(tokenEntries) = 1
        /\ joinToken \in JoinTokens
        /\ exchange[Len(exchange)] = Received("issue", "ok")
        /\ \A i \in tokenEntries :
             /\ spawnArgs[i] = S(<< L("-Dfyreth.join_token="), L(joinToken) >>)
             /\ mainClasses # {}
             /\ \A m \in mainClasses : i < m

C3_SpawnedPre113 ==
  /\ pc = "running" /\ spawns = 1
  /\ ~mcVersionAtLeast(13, server.minecraftVersion)
  /\ authUser.type = "ely" /\ host.authlibInjectorFound
  /\ joinToken = JoinTokenNames[2]

C3_Spawned113 ==
  /\ pc = "running" /\ spawns = 1
  /\ mcVersionAtLeast(13, server.minecraftVersion)
  /\ joinToken = JoinTokenNames[1]

\* C4: every entry of the vector handed to spawn is a string (no object, no
\* null) without an unresolved ${...} placeholder, whatever the template and the
\* account, on both paths.
C4_VectorFullyResolved ==
  spawns > 0 =>
    \A i \in 1..Len(spawnArgs) :
      /\ spawnArgs[i].t \notin { "obj", "null" }
      /\ IsStr(spawnArgs[i]) => ~HasPlaceholder(spawnArgs[i].s)

\* --------------------------------------------------------- the child's close
\* C5: when the spawned child closes, with any exit code or signal, the removal
\* of the scratch directory is attempted exactly once (and never before); a
\* removal that fails is logged and nothing else: no error is raised.
C5_RemovalAttemptedOnce ==
  /\ removeAttempts = (IF pc \in { "closing", "done" } THEN 1 ELSE 0)
  /\ "error while deleting temp dir" \in log =>
       /\ pc = "done" /\ buildError = NoError
       /\ removeAttempts = 1 /\ tempDir = "present"

C5_ClosedBySignalRemovalFailed ==
  /\ pc = "done"
  /\ "exited with code SIGTERM" \in log
  /\ "error while deleting temp dir" \in log

\* --------------------------------------------------------- native extraction
\* C6: the child is spawned only once every write the extractor issued, for all
\* libraries, has settled (written or failed): no write is pending at the spawn
\* or after it.
C6_SpawnAfterWritesSettled ==
  spawns > 0 =>
    \A k \in 1..Len(extractPromises) : extractPromises[k].st \in { "written", "failed" }

C6_SpawnedWithWritesOfTwoLibraries ==
  /\ pc = "running"
  /\ \E j, k \in 1..Len(extractPromises) :
       /\ extractPromises[j].lib # extractPromises[k].lib
       /\ extractPromises[j].st = "written" /\ extractPromises[k].st = "failed"

C7_ArchiveUnreadable ==
  /\ pc = "rejected" /\ buildError.cause = "archive_read"
  /\ \E k \in 1..Len(extractPromises) : extractPromises[k].st = "failed"

\* The exclusion list the loop uses for a library.
ExclusionsOf(lib) ==
  IF lib.exclude # << >> THEN lib.exclude
  ELSE IF lib.fmt = "legacy" THEN DefaultLegacyExclude ELSE DefaultModernExclude

\* Every file entry of an opened archive that is not excluded has its write.
EveryOtherFileEntryIssued ==
  \A i \in 1..Len(outcomes) :
    (outcomes[i].opened # "" /\ ~outcomes[i].threw) =>
      \A n \in 1..Len(Archives[outcomes[i].opened].entries) :
        LET e == Archives[outcomes[i].opened].entries[n]
        IN  (~e.dir /\ ~shouldExclude(e, ExclusionsOf(vanillaManifest.libraries[i]))) =>
              \E k \in 1..Len(extractPromises) :
                extractPromises[k].lib = i /\ extractPromises[k].name = e.name

C8_ModernNestedWritten ==
  \E k \in 1..Len(extractPromises) :
    /\ vanillaManifest.libraries[extractPromises[k].lib].fmt = "modern"
    /\ extractPromises[k].name = << "a", "b.so" >>
    /\ extractPromises[k].st = "written"
    /\ << "b.so" >> \in scratch

NamedArch(lib) ==
  IF lib.fmt = "legacy"
  THEN ReplaceArch(lib.natives[getMojangOS(host.platform)],
                   normalizeArchitecture(host.arch, host.platform, TRUE)).arch
  ELSE IF lib.fmt = "modern" THEN lib.arch ELSE ""

\* The outcomes of the libraries that name an x86-family architecture.
X86Outcomes(fmts) ==
  { i \in 1..Len(outcomes) :
      /\ vanillaManifest.libraries[i].fmt \in fmts
      /\ vanillaManifest.libraries[i].compatible
      /\ NamedArch(vanillaManifest.libraries[i]) \in { "x86_64", "x64" } }

NeverOpened(i) ==
  /\ outcomes[i].opened = "" /\ outcomes[i].writes = << >> /\ ~outcomes[i].threw
  /\ \A k \in 1..Len(extractPromises) : extractPromises[k].lib # i

\* C9 (as stated): on a host detected as arm64, no library that names x86_64 or
\* x64 (legacy classifier or modern identifier) is opened or extracted; it is
\* skipped and the launch goes on.
C9_X86NeverOpenedOnArm ==
  host.arch = "arm64" => \A i \in X86Outcomes({ "legacy", "modern" }) : NeverOpened(i)

\* C9 (amended): on a macOS host detected as arm64, no library that names x86_64
\* or x64 (legacy classifier or modern identifier) is opened or extracted; on any
\* other arm64 host this holds for the modern format; the library is skipped and
\* the launch goes on.
C9_X86NeverOpenedOnArmMac ==
  /\ (host.platform = "darwin" /\ host.arch = "arm64") =>
       \A i \in X86Outcomes({ "legacy", "modern" }) :
         NeverOpened(i) /\ outcomes[i].disp \in { "x86_guard", "os_mismatch" }
  /\ host.arch = "arm64" => \A i \in X86Outcomes({ "modern" }) : NeverOpened(i)

C9_LegacyX86SkippedOnArmMac ==
  /\ host.platform = "darwin" /\ host.arch = "arm64"
  /\ pc = "running"
  /\ \E i \in X86Outcomes({ "legacy" }) : outcomes[i].disp = "x86_guard"

C9_ModernX86SkippedOnArmLinux ==
  /\ host.platform = "linux" /\ host.arch = "arm64"
  /\ pc = "running"
  /\ \E i \in X86Outcomes({ "modern" }) : outcomes[i].disp = "arch_mismatch"

\* The other spelling of an ARM architecture name.
AlternateSpelling(arch) ==
  CASE arch = "aarch64" -> "arm64"
    [] arch = "arm64" -> "aarch64"
    [] OTHER -> arch

\* C10: for a legacy library whose resolved classifier key has no artifact, one
\* more lookup is made under the alternate spelling of the architecture, and the
\* library is extracted from the artifact found there; without one the library
\* is skipped with a warning and the launch goes on.
C10_AlternateSpellingLookedUp ==
  \A i \in 1..Len(outcomes) :
    LET lib == vanillaManifest.libraries[i]
        o == outcomes[i]
    IN  (/\ lib.fmt = "legacy" /\ lib.compatible
         /\ o.lookups # << >>
         /\ ClassifierArtifact(lib, o.lookups[1]) = ""
         /\ AlternateSpelling(o.lookups[1].arch) # o.lookups[1].arch) =>
          LET altKey == Key(o.lookups[1].base, AlternateSpelling(o.lookups[1].arch))
          IN  /\ o.lookups = << o.lookups[1], altKey >>
              /\ IF ClassifierArtifact(lib, altKey) # ""
                 THEN o.opened = ClassifierArtifact(lib, altKey) /\ o.writes # << >>
                 ELSE o.disp = "no_artifact" /\ ~o.threw


====
